---- MODULE Spec2Model ----
(***************************************************************************)
(* The Freshservice MCP adapter: eleven tools, each a coroutine that       *)
(* validates its arguments, issues HTTP GETs one at a time and returns an  *)
(* envelope.  One tool invocation is in progress at a time; a tool is cut  *)
(* at its await points: the Call action runs it up to its first HTTP       *)
(* request, the Resume action hands it the response of the outstanding     *)
(* request and runs it up to the next request or to its return.  A         *)
(* behaviour is one invocation: the tools keep nothing between two.  Two   *)
(* methods of the Resource Clients (get_all_departments and                *)
(* RequestersAPI.search_requesters_by_name) and the Content Normalizer are *)
(* also invoked directly, without a tool around them.                      *)
(*                                                                         *)
(* pc, tool, args, page, acc, requests, responses, result, auth_calls and  *)
(* clients are the locals of the coroutine that is running.  Under         *)
(* ConcurrentSpec several invocations are in progress on the one event     *)
(* loop: `suspended` holds the locals of the coroutines that wait at an    *)
(* await point, `running` is the number of the one that runs.              *)
(***************************************************************************)
EXTENDS Integers, Sequences, FiniteSets, TLC

VARIABLES pc, tool, args, page, acc, requests, responses, result,
          auth_calls, clients, suspended, running

vars == <<pc, tool, args, page, acc, requests, responses, result,
          auth_calls, clients, suspended, running>>

-----------------------------------------------------------------------------
(* Bounds of the model *)

\* highest page number the backend is asked for; a response to this page is
\* always short, failed or unusable, so that the page counter stays bounded
MaxPages == 3

(* Program constants *)

\* per_page of get_all_departments / get_all_requesters_by_department_id /
\* search_all_articles / list_all_departments
PerPage == 100
\* the literal the department and requester loops compare a page's length to
ShortPageLimit == 100
\* list_all_service_items and search_solutions_paginated accept 1..MaxPerPage
MinPerPage == 1
MaxPerPage == 100
\* the article status the solution tools keep
PublishedStatus == 2
\* the status the lookup-by-id tools turn into success:false
NotFoundStatus == 404

-----------------------------------------------------------------------------
(* Python values *)

\* None, as a payload, a default or the value of a field: a one-element
\* tuple that no string equals (a string is a sequence of characters and of
\* HTML tag tokens)
None == <<"None">>

\* Optional[...] arguments: None or a value
NoneArg == [is_none |-> TRUE, val |-> <<>>]
Some(v) == [is_none |-> FALSE, val |-> v]

\* dict.get(key, default)
Get(d, key, default) == IF key \in DOMAIN d THEN d[key] ELSE default

\* strings are sequences of one-character strings
Whitespace == {" ", "\t", "\n"}

RECURSIVE lstrip(_)
lstrip(s) ==
    IF s # <<>> /\ Head(s) \in Whitespace THEN lstrip(Tail(s)) ELSE s

RECURSIVE rstrip(_)
rstrip(s) ==
    IF s # <<>> /\ s[Len(s)] \in Whitespace
    THEN rstrip(SubSeq(s, 1, Len(s) - 1)) ELSE s

\* str.strip()
strip(s) == rstrip(lstrip(s))

\* truth value of a string or None
Truthy(s) == s # <<>> /\ s # None

\* sep.join(parts)
RECURSIVE join(_, _)
join(sep, parts) ==
    IF parts = <<>> THEN <<>>
    ELSE IF Len(parts) = 1 THEN parts[1]
    ELSE parts[1] \o sep \o join(sep, Tail(parts))

\* concatenation of a sequence of sequences
RECURSIVE Flatten(_)
Flatten(ss) == IF ss = <<>> THEN <<>> ELSE Head(ss) \o Flatten(Tail(ss))

\* [f(x) for x in s]
Map(f(_), s) == [i \in 1..Len(s) |-> f(s[i])]

\* [x for x in s if p(x)], by halves
RECURSIVE Filter(_, _)
Filter(p(_), s) ==
    IF s = <<>> THEN <<>>
    ELSE IF Len(s) = 1 THEN (IF p(s[1]) THEN s ELSE <<>>)
    ELSE LET half == Len(s) \div 2
         IN  Filter(p, SubSeq(s, 1, half))
                \o Filter(p, SubSeq(s, half + 1, Len(s)))

\* str(n) for n >= 0
DigitChars == <<"0", "1", "2", "3", "4", "5", "6", "7", "8", "9">>

RECURSIVE IntStr(_)
IntStr(n) ==
    IF n < 10 THEN <<DigitChars[n + 1]>>
    ELSE IntStr(n \div 10) \o <<DigitChars[(n % 10) + 1]>>

-----------------------------------------------------------------------------
(* urllib.parse.quote *)

\* characters quote() leaves alone: letters, digits and "_.-~/"
SafeChars == {"a", "b", "c", "d", "e", "f", "g", "h", "i", "j", "k", "l", "m",
              "n", "o", "p", "q", "r", "s", "t", "u", "v", "w", "x", "y", "z",
              "A", "B", "C", "D", "E", "F", "G", "H", "I", "J", "K", "L", "M",
              "N", "O", "P", "Q", "R", "S", "T", "U", "V", "W", "X", "Y", "Z",
              "0", "1", "2", "3", "4", "5", "6", "7", "8", "9",
              "_", ".", "-", "~", "/"}

\* the two hex digits of the characters of the model's alphabet that are
\* not safe
HexOf(c) ==
    CASE c = " "  -> <<"2", "0">>
      [] c = "'"  -> <<"2", "7">>
      [] c = ":"  -> <<"3", "A">>
      [] c = "%"  -> <<"2", "5">>
      [] c = "\t" -> <<"0", "9">>
      [] c = "\n" -> <<"0", "A">>

\* faulty variant: a percent sign is left as it is
PctEncode_percent_safe(c) ==
    IF c \in SafeChars \cup {"%"} THEN <<c>> ELSE <<"%">> \o HexOf(c)

PctEncode(c) == IF c \in SafeChars THEN <<c>> ELSE <<"%">> \o HexOf(c)

quote(s) == Flatten([i \in 1..Len(s) |-> PctEncode(s[i])])

-----------------------------------------------------------------------------
(* Content normalizer (freshservice_api/solutions.py) *)

\* markdownify, on a text that is a sequence of characters and of HTML tag
\* tokens: <p> becomes a blank line, <b> becomes **, a stripped tag
\* (script, style) disappears and leaves its content, "_" and "*" in text
\* are escaped with a backslash
MdToken(c) ==
    CASE c \in {"<p>", "</p>"}           -> <<"\n", "\n">>
      [] c \in {"<b>", "</b>"}           -> <<"*", "*">>
      [] c \in {"<script>", "</script>"} -> <<>>
      [] c \in {"<style>", "</style>"}   -> <<>>
      [] c \in {"_", "*"}                -> <<"\\", c>>
      [] OTHER                           -> <<c>>

md(s) == Flatten([i \in 1..Len(s) |-> MdToken(s[i])])

\* the length of the longest prefix of s made of whitespace
RECURSIVE WsRun(_)
WsRun(s) ==
    IF s # <<>> /\ Head(s) \in Whitespace THEN 1 + WsRun(Tail(s)) ELSE 0

\* the number of newlines in s
RECURSIVE Newlines(_)
Newlines(s) ==
    IF s = <<>> THEN 0
    ELSE (IF Head(s) = "\n" THEN 1 ELSE 0) + Newlines(Tail(s))

\* the position of the last newline of s, 0 when there is none
RECURSIVE LastNewline(_)
LastNewline(s) ==
    IF s = <<>> THEN 0
    ELSE IF s[Len(s)] = "\n" THEN Len(s)
    ELSE LastNewline(SubSeq(s, 1, Len(s) - 1))

\* re.sub(r'\n\s*\n\s*\n', '\n\n', s): a match starts at a newline and runs
\* to the last newline of the whitespace run that starts there, when that
\* run holds three newlines or more
RECURSIVE CollapseNewlines(_)
CollapseNewlines(s) ==
    IF s = <<>> THEN <<>>
    ELSE LET run == SubSeq(s, 1, WsRun(s))
         IN  IF Head(s) = "\n" /\ Newlines(run) >= 3
             THEN <<"\n", "\n">>
                  \o CollapseNewlines(SubSeq(s, LastNewline(run) + 1, Len(s)))
             ELSE <<Head(s)>> \o CollapseNewlines(Tail(s))

\* re.sub(r'[ \t]+', ' ', s)
RECURSIVE CollapseSpaces(_)
CollapseSpaces(s) ==
    IF s = <<>> THEN <<>>
    ELSE IF Head(s) \in {" ", "\t"}
         THEN IF Len(s) > 1 /\ s[2] \in {" ", "\t"}
              THEN CollapseSpaces(Tail(s))
              ELSE <<" ">> \o CollapseSpaces(Tail(s))
         ELSE <<Head(s)>> \o CollapseSpaces(Tail(s))

\* clean_html_content on a string
clean_html_string(content) ==
    IF ~Truthy(content) THEN <<>>
    ELSE strip(CollapseSpaces(CollapseNewlines(md(content))))

\* faulty variant: the tags are cleaned as well
html_fields_with_tags == {"description", "title", "summary", "tags"}

html_fields == {"description", "title", "summary"}

\* clean_html_content on an article mapping: the fields are assigned in a
\* copy of it
clean_html_content(content) ==
    [k \in DOMAIN content |->
        IF k \in html_fields /\ Truthy(content[k])
        THEN clean_html_string(content[k])
        ELSE content[k]]

\* a value with the branch the isinstance tests of clean_html_content lead
\* to: "str", "dict" (a mapping that is not empty), "empty" (the empty
\* mapping, returned as it is) or "other"
TypeOf(content) == CHOOSE type \in DOMAIN content : TRUE
Typed(type, val) == [t \in {type} |-> val]
ValueOf(content) == content[TypeOf(content)]

\* clean_html_content on a value of any type
clean_html_value(content) ==
    CASE TypeOf(content) = "str"   -> clean_html_string(ValueOf(content))
      [] TypeOf(content) = "dict"  -> clean_html_content(ValueOf(content))
      [] TypeOf(content) = "empty" -> ValueOf(content)
      [] OTHER                     -> ValueOf(content)

-----------------------------------------------------------------------------
(* Formatters of the tool layer *)

\* the department projection of get_department_by_name / get_department_id
format_department(department) ==
    [id            |-> Get(department, "id", None),
     name          |-> Get(department, "name", None),
     description   |-> Get(department, "description", None),
     head_user_id  |-> Get(department, "head_user_id", None),
     prime_user_id |-> Get(department, "prime_user_id", None),
     domains       |-> Get(department, "domains", <<>>),
     created_at    |-> Get(department, "created_at", None),
     updated_at    |-> Get(department, "updated_at", None)]

_format_requester(requester) ==
    [id                  |-> Get(requester, "id", None),
     first_name          |-> Get(requester, "first_name", None),
     last_name           |-> Get(requester, "last_name", None),
     primary_email       |-> Get(requester, "primary_email", None),
     job_title           |-> Get(requester, "job_title", None),
     department_ids      |-> Get(requester, "department_ids", <<>>),
     work_phone_number   |-> Get(requester, "work_phone_number", None),
     mobile_phone_number |-> Get(requester, "mobile_phone_number", None),
     active              |-> Get(requester, "active", None),
     created_at          |-> Get(requester, "created_at", None),
     updated_at          |-> Get(requester, "updated_at", None)]

_format_service_item(item) ==
    [id                |-> Get(item, "id", None),
     display_id        |-> Get(item, "display_id", None),
     name              |-> Get(item, "name", None),
     description       |-> Get(item, "description", None),
     short_description |-> Get(item, "short_description", None),
     cost              |-> Get(item, "cost", None),
     quantity          |-> Get(item, "quantity", None),
     category_id       |-> Get(item, "category_id", None),
     visibility        |-> Get(item, "visibility", None),
     deleted           |-> Get(item, "deleted", None),
     icon_name         |-> Get(item, "icon_name", None)]

\* the article URL is kept as the pair (path, id)
_format_article(article) ==
    [id           |-> Get(article, "id", None),
     title        |-> Get(article, "title", None),
     description  |-> Get(article, "description", None),
     article_type |-> Get(article, "article_type", None),
     folder_id    |-> Get(article, "folder_id", None),
     category_id  |-> Get(article, "category_id", None),
     thumbs_up    |-> Get(article, "thumbs_up", 0),
     thumbs_down  |-> Get(article, "thumbs_down", 0),
     tags         |-> Get(article, "tags", <<>>),
     keywords     |-> Get(article, "keywords", <<>>),
     updated_at   |-> Get(article, "updated_at", None),
     url          |-> IF "id" \in DOMAIN article
                      THEN <<"/support/solutions/articles/", article.id>>
                      ELSE None]

-----------------------------------------------------------------------------
(* The backend: resource items and HTTP responses *)

\* "fresh": every page holds items of its own; "repeat": the backend serves
\* the same items on every page
Variants == {"fresh", "repeat"}

ItemId(p, i, variant) == IF variant = "fresh" THEN (p - 1) * 1000 + i ELSE i

ArticleTitles == << <<"<p>", "a", "_", "b", "</p>">>,
                    <<"a", " ", " ", "b">>,
                    <<>> >>

Item(resource, id) ==
    CASE resource = "departments" ->
            [id |-> id, name |-> <<"I", "T">>]
      [] resource = "requesters" ->
            [id |-> id, first_name |-> <<"A", "n", "n">>,
             last_name |-> <<"L", "e", "e">>]
      [] resource = "service_items" ->
            [id |-> id, display_id |-> id, name |-> <<"P", "C">>]
      [] resource = "articles" ->
            [id |-> id, status |-> IF id % 3 = 0 THEN 1 ELSE PublishedStatus,
             title |-> ArticleTitles[(id % 3) + 1],
             description |-> <<"<b>", "x", "</b>", "\n", "\n", "\n", "y">>]

\* the k items of page p
PageOf(resource, p, k, variant) ==
    [i \in 1..k |-> Item(resource, ItemId(p, i, variant))]

\* a 2xx response; shape says what the JSON body is:
\*   "keyed"   a mapping that holds the items under the resource's key
\*   "list"    a bare list of the items
\*   "nokey"   a mapping without the resource's key
\*   "scalar"  a JSON null, number or boolean
\*   "invalid" not JSON: response.json() raises
Ok(shape, items) ==
    [kind |-> "ok", status |-> 200, is_json |-> shape # "invalid",
     shape |-> shape, items |-> items]

\* a non-2xx response, whose body is JSON or not
StatusError(status, is_json) ==
    [kind |-> "status", status |-> status, is_json |-> is_json,
     shape |-> "error", items |-> <<>>]

\* no response: the transport raised (connection refused, timeout)
TransportError ==
    [kind |-> "exc", status |-> 0, is_json |-> FALSE,
     shape |-> "error", items |-> <<>>]

ErrorStatuses == {301, 404, 500}

FailedResponses ==
    {StatusError(s, j) : s \in ErrorStatuses, j \in BOOLEAN}
        \cup {TransportError}

UnusableResponses == {Ok("nokey", <<>>), Ok("scalar", <<>>), Ok("invalid", <<>>)}

\* the page lengths the backend answers a request for n items with; the
\* last page the model asks for is short
PageLens(p, n) ==
    {k \in {0, 1, 3, n - 1, n, n + 1} :
        k >= 0 /\ (k = 3 => n > 3) /\ (p = MaxPages => k < n)}

\* the 2xx responses to a request for page p of a collection, n items a
\* page: the items under the key, in every length; as a bare list, empty,
\* short and full; and a page that repeats the items of page 1
OkPages(resource, p, n) ==
    {Ok("keyed", PageOf(resource, p, k, "fresh")) : k \in PageLens(p, n)}
        \cup {Ok("list", PageOf(resource, p, k, "fresh")) :
                k \in PageLens(p, n) \cap {0, 1, n}}
        \cup {Ok("keyed", PageOf(resource, p, k, "repeat")) :
                k \in PageLens(p, n) \cap {1, n}}

\* the responses to a request for page p of a collection, n items a page
PageResponses(resource, p, n) ==
    OkPages(resource, p, n) \cup UnusableResponses \cup FailedResponses

\* the responses to a search that is not paged
SearchResponses(resource) ==
    {Ok(shape, PageOf(resource, 1, k, "fresh")) :
        shape \in {"keyed", "list"}, k \in 0..2}
        \cup UnusableResponses \cup FailedResponses

\* the responses to a lookup by id: the object under its key ("keyed"), the
\* object itself ("flat"), or something else
ObjectResponses(resource, id) ==
    {Ok(shape, <<Item(resource, id)>>) : shape \in {"keyed", "flat", "list"}}
        \cup {Ok("scalar", <<>>), Ok("invalid", <<>>)} \cup FailedResponses

\* response.json() and response.text of an error response
ErrorJson(resp) == [description |-> <<"remote error", resp.status>>]
ErrorText(resp) == <<"<html>", resp.status, "</html>">>

-----------------------------------------------------------------------------
(* HTTP requests *)

NoQuery == [param |-> "", value |-> <<>>, quoted |-> FALSE]

\* faulty variant: the quotes around the encoded query are left out
QuotedQuery_bare(encoded) ==
    [param |-> "query", value |-> encoded, quoted |-> FALSE]

\* query="<encoded>"
QuotedQuery(encoded) == [param |-> "query", value |-> encoded, quoted |-> TRUE]

\* query=<encoded>
BareQuery(encoded) == [param |-> "query", value |-> encoded, quoted |-> FALSE]

\* search_term=<encoded>
SearchTerm(encoded) ==
    [param |-> "search_term", value |-> encoded, quoted |-> FALSE]

\* faulty variant: the request is sent with another method
Request_post(resource, id, query, p, n) ==
    [method |-> "POST", resource |-> resource, id |-> id, query |-> query,
     page |-> p, per_page |-> n, client |-> 0, headers |-> 0]

\* faulty variant: every request asks for the first page
Request_page_one(resource, id, query, p, n) ==
    [method |-> "GET", resource |-> resource, id |-> id, query |-> query,
     page |-> IF p > 1 THEN 1 ELSE p, per_page |-> n, client |-> 0,
     headers |-> 0]

\* a GET of {base_url}{/id}?{query}&page={page}&per_page={per_page}; id,
\* page and per_page are 0 when the URL has none; client and headers number
\* the httpx.AsyncClient context and the call of the auth-header callback
\* the request is made with
Request(resource, id, query, p, n) ==
    [method |-> "GET", resource |-> resource, id |-> id, query |-> query,
     page |-> p, per_page |-> n, client |-> 0, headers |-> 0]

-----------------------------------------------------------------------------
(* Arguments the tools are invoked with *)

Ids == {-1, 0, 9999}

Strings == { <<>>, <<" ">>, <<"F", "i", "n">>, <<" ", "a", " ", "b", "\t">>,
             <<"O", "'", "K", ":", "%", "2", "0">> }

OptionalStrings == {NoneArg} \cup {Some(s) : s \in Strings}

PageArgs == {0, 1, 2}

PerPageArgs == {0, 1, 2, MaxPerPage, MaxPerPage + 1}

OptionalPerPageArgs == {NoneArg} \cup {Some(n) : n \in PerPageArgs}

NoArgs == [no_args |-> TRUE]

-----------------------------------------------------------------------------
(* Envelopes and exceptions *)

NoResult == [pending |-> TRUE]

\* an error message is kept as its kind ("validation", "failed" or
\* "unexpected"), its fixed text and the text of the exception put into it

\* str(e) of the exception a failed response raises
ExcText(resp) ==
    IF resp.kind = "status" THEN <<"HTTPStatusError", resp.status>>
    ELSE <<"ConnectError">>

\* faulty variant: the handler of any exception runs instead
StatusErrorEnvelope_unexpected(prefix, resp) ==
    [error |-> <<"unexpected", prefix, <<"HTTPStatusError", resp.status>>>>]

\* faulty variant: the handler hands back what was accumulated
StatusErrorEnvelope_partial(prefix, resp) ==
    [error       |-> <<"failed", prefix, <<"HTTPStatusError", resp.status>>>>,
     status_code |-> resp.status,
     details     |-> IF resp.is_json
                     THEN [description |-> <<"remote error", resp.status>>]
                     ELSE <<"<html>", resp.status, "</html>">>,
     partial     |-> acc]

\* the envelope of an `except httpx.HTTPStatusError` handler
StatusErrorEnvelope(prefix, resp) ==
    [error       |-> <<"failed", prefix, ExcText(resp)>>,
     status_code |-> resp.status,
     details     |-> IF resp.is_json THEN ErrorJson(resp) ELSE ErrorText(resp)]

\* the envelope of an `except Exception` handler
UnexpectedEnvelope(prefix, exc) == [error |-> <<"unexpected", prefix, exc>>]

\* the envelope of a failed argument check
ValidationEnvelope(text) == [error |-> <<"validation", text>>]

\* the exception `"<key>" in data` or response.json() raises on a body, ""
\* when there is none
MembershipError(resp) ==
    CASE resp.shape = "invalid" -> "JSONDecodeError"
      [] resp.shape = "scalar"  -> "TypeError"
      [] OTHER                  -> ""

\* the exception data.get(...) or response.json() raises on a body
GetError(resp) ==
    CASE resp.shape = "invalid"           -> "JSONDecodeError"
      [] resp.shape \in {"scalar", "list"} -> "AttributeError"
      [] OTHER                            -> ""

\* faulty variant: no status is singled out
IsNotFound_never(resp) == FALSE

\* `e.response.status_code == 404` in the handler of a lookup tool
IsNotFound(resp) == resp.kind = "status" /\ resp.status = NotFoundStatus

\* faulty variant: a bare list is not taken for the items
ExtractItems_keyed_only(resp) ==
    IF resp.shape = "keyed" THEN resp.items ELSE <<>>

\* faulty variant: the items of a page are taken last to first
ExtractItems_reversed(resp) ==
    IF resp.shape \in {"keyed", "list"}
    THEN [i \in 1..Len(resp.items) |-> resp.items[Len(resp.items) + 1 - i]]
    ELSE <<>>

\* the items a flattening loop takes from a page: data[key] when the key is
\* there, else data when it is a list, else []
ExtractItems(resp) ==
    IF resp.shape \in {"keyed", "list"} THEN resp.items ELSE <<>>

\* faulty variant: the items under the key are taken last to first
GetItems_reversed(resp) ==
    IF resp.shape = "keyed"
    THEN [i \in 1..Len(resp.items) |-> resp.items[Len(resp.items) + 1 - i]]
    ELSE <<>>

\* data.get(key, [])
GetItems(resp) == IF resp.shape = "keyed" THEN resp.items ELSE <<>>

\* faulty variant: only an empty page ends the loop
ShortPage_empty_only(items, limit) == Len(items) = 0

\* faulty variant: a page of exactly `limit` items ends the loop too
ShortPage_or_full(items, limit) == Len(items) <= limit

\* the test that ends a pagination loop
ShortPage(items, limit) == Len(items) < limit

-----------------------------------------------------------------------------
(* Steps shared by the actions *)

Idle == pc = "idle"

\* a tool starts: its locals are fresh
Begin(name, arguments) ==
    /\ Idle
    /\ tool' = name
    /\ args' = arguments
    /\ page' = 1
    /\ acc' = <<>>
    /\ responses' = <<>>
    /\ UNCHANGED <<suspended, running>>

Return(envelope) == pc' = "returned" /\ result' = envelope

Raise(exc) == pc' = "raised" /\ result' = [raised |-> exc]

\* the response of the outstanding request arrives
Receive(resp) ==
    /\ responses' = Append(responses, resp)
    /\ UNCHANGED <<suspended, running>>

\* a method of an API class issues a request: it calls the auth-header
\* callback, opens a client of its own and awaits the GET; an exception of
\* the callback goes to the `except Exception` handler of the tool
ApiSend(reqs, calls, opened, req, auth_ok, prefix) ==
    /\ auth_calls' = calls + 1
    /\ IF auth_ok
       THEN /\ clients' = opened + 1
            /\ requests' = Append(reqs, [req EXCEPT !.client = opened + 1,
                                                    !.headers = calls + 1])
            /\ pc' = "await"
            /\ result' = NoResult
       ELSE /\ clients' = opened
            /\ requests' = reqs
            /\ Return(UnexpectedEnvelope(prefix, "AuthError"))

\* a department tool issues its request: the callback is called outside the
\* try block, an exception of the callback leaves the tool
DirectSend(req, auth_ok) ==
    /\ auth_calls' = 1
    /\ IF auth_ok
       THEN /\ clients' = 1
            /\ requests' = <<[req EXCEPT !.client = 1, !.headers = 1]>>
            /\ pc' = "await"
            /\ result' = NoResult
       ELSE /\ clients' = 0
            /\ requests' = <<>>
            /\ Raise("AuthError")

\* a tool returns before any request
ReturnEarly(envelope) ==
    /\ Return(envelope)
    /\ requests' = <<>>
    /\ auth_calls' = 0
    /\ clients' = 0

\* a tool returns on a response
Finish(envelope) ==
    /\ Return(envelope)
    /\ UNCHANGED <<tool, args, page, requests, auth_calls, clients>>

-----------------------------------------------------------------------------
(* DepartmentsAPI.get_all_departments (freshservice_api/departments.py),   *)
(* called directly: no tool wraps it, its exceptions reach the caller      *)

get_all_departments_Call ==
    \E auth_ok \in BOOLEAN :
        /\ Begin("get_all_departments", NoArgs)
        /\ auth_calls' = 1
        /\ IF auth_ok
           THEN /\ clients' = 1
                /\ requests' = <<[Request("departments", 0, NoQuery, 1, PerPage)
                                    EXCEPT !.client = 1, !.headers = 1]>>
                /\ pc' = "await"
                /\ result' = NoResult
           ELSE /\ clients' = 0
                /\ requests' = <<>>
                /\ Raise("AuthError")

get_all_departments_Resume ==
    /\ pc = "await"
    /\ tool = "get_all_departments"
    /\ UNCHANGED <<tool, args>>
    /\ \E resp \in PageResponses("departments", page, PerPage) :
        /\ Receive(resp)
        /\ CASE resp.kind \in {"status", "exc"} ->
                  /\ Raise(ExcText(resp)[1])
                  /\ UNCHANGED <<acc, page, requests, auth_calls, clients>>
             [] resp.kind = "ok" /\ MembershipError(resp) # "" ->
                  /\ Raise(MembershipError(resp))
                  /\ UNCHANGED <<acc, page, requests, auth_calls, clients>>
             [] OTHER ->
                  LET departments == ExtractItems(resp)
                      all_departments == acc \o departments
                  IN  /\ acc' = all_departments
                      /\ IF ShortPage(departments, ShortPageLimit)
                         THEN /\ Return([value |-> all_departments])
                              /\ UNCHANGED <<page, requests, auth_calls, clients>>
                         ELSE /\ page' = page + 1
                              /\ auth_calls' = auth_calls + 1
                              /\ \E auth_ok \in BOOLEAN :
                                    IF auth_ok
                                    THEN /\ clients' = clients + 1
                                         /\ requests' = Append(requests,
                                               [Request("departments", 0, NoQuery,
                                                        page + 1, PerPage)
                                                  EXCEPT !.client = clients + 1,
                                                         !.headers = auth_calls + 1])
                                         /\ UNCHANGED <<pc, result>>
                                    ELSE /\ Raise("AuthError")
                                         /\ UNCHANGED <<clients, requests>>

-----------------------------------------------------------------------------
(* Department tools (freshservice_mcp/departments.py) *)

\* faulty variant: the last page, which is short, is not counted
departments_envelope_full_pages(all_departments, p) ==
    [success       |-> TRUE,
     departments   |-> all_departments,
     total_count   |-> Len(all_departments),
     pages_fetched |-> p - 1]

\* the success envelope of list_all_departments
departments_envelope(all_departments, p) ==
    [success       |-> TRUE,
     departments   |-> all_departments,
     total_count   |-> Len(all_departments),
     pages_fetched |-> p]

list_all_departments_Call ==
    \E auth_ok \in BOOLEAN :
        /\ Begin("list_all_departments", NoArgs)
        /\ DirectSend(Request("departments", 0, NoQuery, 1, PerPage), auth_ok)

list_all_departments_Resume ==
    /\ pc = "await"
    /\ tool = "list_all_departments"
    /\ \E resp \in PageResponses("departments", page, PerPage) :
        /\ Receive(resp)
        /\ CASE resp.kind = "status" ->
                  /\ Finish(StatusErrorEnvelope(
                         "Failed to fetch list of departments: ", resp))
                  /\ acc' = acc
             [] resp.kind = "exc" ->
                  /\ Finish(UnexpectedEnvelope(
                         "Unexpected error occurred: ", ExcText(resp)))
                  /\ acc' = acc
             [] resp.kind = "ok" /\ MembershipError(resp) # "" ->
                  /\ Finish(UnexpectedEnvelope(
                         "Unexpected error occurred: ", MembershipError(resp)))
                  /\ acc' = acc
             [] OTHER ->
                  LET departments == ExtractItems(resp)
                      all_departments == acc \o departments
                  IN  /\ acc' = all_departments
                      /\ IF ShortPage(departments, ShortPageLimit)
                         THEN Finish(departments_envelope(all_departments, page))
                         ELSE /\ page' = page + 1
                              /\ requests' = Append(requests,
                                    [Request("departments", 0, NoQuery,
                                             page + 1, PerPage)
                                        EXCEPT !.client = 1, !.headers = 1])
                              /\ UNCHANGED <<pc, result, tool, args,
                                             auth_calls, clients>>

\* the query get_department_by_name builds
department_query(name) ==
    <<"n", "a", "m", "e", ":", "'">> \o strip(name) \o <<"'">>

get_department_by_name_Call ==
    \E name \in Strings, auth_ok \in BOOLEAN :
        /\ Begin("get_department_by_name", [name |-> name])
        /\ IF ~Truthy(name) \/ ~Truthy(strip(name))
           THEN ReturnEarly(ValidationEnvelope(
                    "Department name is required and cannot be empty"))
           ELSE DirectSend(Request("departments", 0,
                               QuotedQuery(quote(department_query(name))),
                               0, 0), auth_ok)

get_department_by_name_Resume ==
    /\ pc = "await"
    /\ tool = "get_department_by_name"
    /\ acc' = acc
    /\ \E resp \in SearchResponses("departments") :
        /\ Receive(resp)
        /\ CASE resp.kind = "status" ->
                  Finish(StatusErrorEnvelope(
                      <<"Failed to search for department ", args.name>>, resp))
             [] resp.kind = "exc" ->
                  Finish(UnexpectedEnvelope(
                      <<"Unexpected error occurred while searching for department ",
                        args.name>>, ExcText(resp)))
             [] resp.kind = "ok" /\ GetError(resp) # "" ->
                  Finish(UnexpectedEnvelope(
                      <<"Unexpected error occurred while searching for department ",
                        args.name>>, GetError(resp)))
             [] OTHER ->
                  LET departments == GetItems(resp)
                  IN  IF departments = <<>>
                      THEN Finish([success    |-> FALSE,
                                   message    |-> <<"No department found with name: ",
                                                    args.name>>,
                                   department |-> None])
                      ELSE Finish([success       |-> TRUE,
                                   message       |-> <<"Department found: ",
                                                       Get(departments[1], "name",
                                                           "Unknown")>>,
                                   department    |-> format_department(departments[1]),
                                   total_matches |-> Len(departments)])

\* what a lookup tool takes from a 2xx body: data.get(key, data)
GetObject(resp) == resp.items[1]

get_department_id_Call ==
    \E department_id \in Ids, auth_ok \in BOOLEAN :
        /\ Begin("get_department_id", [department_id |-> department_id])
        /\ IF department_id = 0 \/ department_id <= 0
           THEN ReturnEarly(ValidationEnvelope(
                    "Department ID is required and must be a positive integer"))
           ELSE DirectSend(Request("departments", department_id, NoQuery, 0, 0),
                           auth_ok)

get_department_id_Resume ==
    /\ pc = "await"
    /\ tool = "get_department_id"
    /\ acc' = acc
    /\ \E resp \in ObjectResponses("departments", args.department_id) :
        /\ Receive(resp)
        /\ CASE IsNotFound(resp) ->
                  Finish([success    |-> FALSE,
                          message    |-> <<"No department found with ID: ",
                                           args.department_id>>,
                          department |-> None])
             [] resp.kind = "status" /\ ~IsNotFound(resp) ->
                  Finish(StatusErrorEnvelope(
                      <<"Failed to retrieve department with ID ",
                        args.department_id>>, resp))
             [] resp.kind = "exc" ->
                  Finish(UnexpectedEnvelope(
                      <<"Unexpected error occurred while retrieving department ID ",
                        args.department_id>>, ExcText(resp)))
             [] resp.kind = "ok" /\ GetError(resp) # "" ->
                  Finish(UnexpectedEnvelope(
                      <<"Unexpected error occurred while retrieving department ID ",
                        args.department_id>>, GetError(resp)))
             [] OTHER ->
                  LET department == GetObject(resp)
                  IN  Finish([success    |-> TRUE,
                              message    |-> <<"Department found: ",
                                               Get(department, "name", "Unknown")>>,
                              department |-> format_department(department)])

-----------------------------------------------------------------------------
(* Requester tools (freshservice_mcp/requesters.py over                   *)
(* freshservice_api/requesters.py)                                        *)

\* faulty variant: a name of whitespace counts as given
name_valid_unstripped(name) == ~name.is_none /\ name.val # <<>>

\* `first_name and first_name.strip()` as a truth value
name_valid(name) == ~name.is_none /\ Truthy(name.val) /\ Truthy(strip(name.val))

\* `not first_name` of an Optional[str]
name_missing(name) == name.is_none \/ ~Truthy(name.val)

\* `first_name and first_name.strip()` of an Optional[str], as a truth value
name_usable(name) == ~name_missing(name) /\ Truthy(strip(name.val))

\* RequestersAPI.search_requesters_by_name up to its request: it raises
\* ValueError or builds the query
requesters_query(first_name, last_name) ==
    IF name_missing(first_name) /\ name_missing(last_name)
    THEN [raises |-> TRUE, query |-> <<>>]
    ELSE [raises |-> FALSE,
          query  |-> join(<<" ", "A", "N", "D", " ">>,
                      (IF name_usable(first_name)
                       THEN << <<"f", "i", "r", "s", "t", "_", "n", "a", "m", "e",
                                 ":", "'">> \o strip(first_name.val) \o <<"'">> >>
                       ELSE <<>>)
                      \o
                      (IF name_usable(last_name)
                       THEN << <<"l", "a", "s", "t", "_", "n", "a", "m", "e",
                                 ":", "'">> \o strip(last_name.val) \o <<"'">> >>
                       ELSE <<>>))]

\* the argument the tool passes on: the stripped name, or None
passed_name(name) == IF name_valid(name) THEN Some(strip(name.val)) ELSE NoneArg

\* search_parts of the tool's messages
search_parts(first_name, last_name) ==
    (IF name_valid(first_name)
     THEN << <<"first name: ", strip(first_name.val)>> >> ELSE <<>>)
    \o
    (IF name_valid(last_name)
     THEN << <<"last name: ", strip(last_name.val)>> >> ELSE <<>>)

search_requesters_by_name_Call ==
    \E first_name \in OptionalStrings, last_name \in OptionalStrings,
       auth_ok \in BOOLEAN :
        /\ Begin("search_requesters_by_name",
                 [first_name |-> first_name, last_name |-> last_name])
        /\ IF ~name_valid(first_name) /\ ~name_valid(last_name)
           THEN ReturnEarly(ValidationEnvelope(
                    "At least one of first_name or last_name must be provided and cannot be empty"))
           ELSE LET q == requesters_query(passed_name(first_name),
                                          passed_name(last_name))
                    prefix == <<"Unexpected error occurred while searching for requesters with ",
                                search_parts(first_name, last_name)>>
                IN  IF q.raises
                    THEN ReturnEarly(UnexpectedEnvelope(prefix, "ValueError"))
                    ELSE ApiSend(<<>>, 0, 0,
                                 Request("requesters", 0,
                                         BareQuery(quote(q.query)), 0, 0),
                                 auth_ok, prefix)

search_requesters_by_name_Resume ==
    /\ pc = "await"
    /\ tool = "search_requesters_by_name"
    /\ acc' = acc
    /\ \E resp \in SearchResponses("requesters") :
        LET search_term == search_parts(args.first_name, args.last_name)
        IN
        /\ Receive(resp)
        /\ CASE resp.kind = "status" ->
                  Finish(StatusErrorEnvelope(
                      <<"Failed to search for requesters with ", search_term>>,
                      resp))
             [] resp.kind = "exc" ->
                  Finish(UnexpectedEnvelope(
                      <<"Unexpected error occurred while searching for requesters with ",
                        search_term>>, ExcText(resp)))
             [] resp.kind = "ok" /\ GetError(resp) # "" ->
                  Finish(UnexpectedEnvelope(
                      <<"Unexpected error occurred while searching for requesters with ",
                        search_term>>, GetError(resp)))
             [] OTHER ->
                  LET requesters == GetItems(resp)
                  IN  IF requesters = <<>>
                      THEN Finish([success     |-> TRUE,
                                   message     |-> <<"No requesters found with ",
                                                     search_term>>,
                                   requesters  |-> <<>>,
                                   total_count |-> 0])
                      ELSE Finish([success     |-> TRUE,
                                   message     |-> <<"Found ", Len(requesters),
                                                     " requester(s) matching ",
                                                     search_term>>,
                                   requesters  |-> Map(_format_requester, requesters),
                                   total_count |-> Len(requesters)])

\* the query RequestersAPI.get_requesters_by_department_id builds
department_id_query(department_id) ==
    <<"d", "e", "p", "a", "r", "t", "m", "e", "n", "t", "_", "i", "d", ":">>
        \o IntStr(department_id)

\* the request of RequestersAPI.get_requesters_by_department_id
requesters_request(department_id, p, n) ==
    Request("requesters", 0,
            QuotedQuery(quote(department_id_query(department_id))), p, n)

\* the success envelopes of get_requesters_by_department_id
requesters_envelope(requesters, department_id, first_page_only) ==
    IF requesters = <<>>
    THEN [success       |-> TRUE,
          message       |-> <<"No requesters found in department ID: ",
                              department_id>>,
          requesters    |-> <<>>,
          total_count   |-> 0,
          department_id |-> department_id]
    ELSE IF first_page_only
    THEN [success       |-> TRUE,
          message       |-> <<"Found ", Len(requesters),
                              " requester(s) in department ID: ",
                              department_id, " (first page)">>,
          requesters    |-> Map(_format_requester, requesters),
          total_count   |-> Len(requesters),
          department_id |-> department_id,
          note          |-> "This shows the first page only. Set get_all=True to retrieve all requesters."]
    ELSE [success       |-> TRUE,
          message       |-> <<"Found ", Len(requesters),
                              " requester(s) in department ID: ",
                              department_id>>,
          requesters    |-> Map(_format_requester, requesters),
          total_count   |-> Len(requesters),
          department_id |-> department_id]

get_requesters_by_department_id_Call ==
    \E department_id \in Ids, get_all \in BOOLEAN, auth_ok \in BOOLEAN :
        /\ Begin("get_requesters_by_department_id",
                 [department_id |-> department_id, get_all |-> get_all])
        /\ IF department_id = 0 \/ department_id <= 0
           THEN ReturnEarly(ValidationEnvelope(
                    "Department ID is required and must be a positive integer"))
           ELSE ApiSend(<<>>, 0, 0,
                        requesters_request(department_id, 1, PerPage), auth_ok,
                        <<"Unexpected error occurred while retrieving requesters for department ID ",
                          department_id>>)

get_requesters_by_department_id_Resume ==
    /\ pc = "await"
    /\ tool = "get_requesters_by_department_id"
    /\ \E resp \in PageResponses("requesters", page, PerPage) :
        LET unexpected == <<"Unexpected error occurred while retrieving requesters for department ID ",
                            args.department_id>>
            raised == IF args.get_all THEN MembershipError(resp)
                      ELSE GetError(resp)
        IN
        /\ Receive(resp)
        /\ CASE resp.kind = "status" ->
                  /\ Finish(StatusErrorEnvelope(
                         <<"Failed to retrieve requesters for department ID ",
                           args.department_id>>, resp))
                  /\ acc' = acc
             [] resp.kind = "exc" ->
                  /\ Finish(UnexpectedEnvelope(unexpected, ExcText(resp)))
                  /\ acc' = acc
             [] resp.kind = "ok" /\ raised # "" ->
                  /\ Finish(UnexpectedEnvelope(unexpected, raised))
                  /\ acc' = acc
             [] resp.kind = "ok" /\ raised = "" /\ ~args.get_all ->
                  /\ Finish(requesters_envelope(GetItems(resp),
                                                args.department_id, TRUE))
                  /\ acc' = acc
             [] OTHER ->
                  LET requesters == ExtractItems(resp)
                      all_requesters == acc \o requesters
                  IN  /\ acc' = all_requesters
                      /\ IF ShortPage(requesters, ShortPageLimit)
                         THEN Finish(requesters_envelope(all_requesters,
                                         args.department_id, FALSE))
                         ELSE /\ page' = page + 1
                              /\ UNCHANGED <<tool, args>>
                              /\ \E auth_ok \in BOOLEAN :
                                    ApiSend(requests, auth_calls, clients,
                                            requesters_request(args.department_id,
                                                               page + 1, PerPage),
                                            auth_ok, unexpected)

get_requester_by_id_Call ==
    \E requester_id \in Ids, auth_ok \in BOOLEAN :
        /\ Begin("get_requester_by_id", [requester_id |-> requester_id])
        /\ IF requester_id = 0 \/ requester_id <= 0
           THEN ReturnEarly(ValidationEnvelope(
                    "Requester ID is required and must be a positive integer"))
           ELSE ApiSend(<<>>, 0, 0,
                        Request("requesters", requester_id, NoQuery, 0, 0),
                        auth_ok,
                        <<"Unexpected error occurred while retrieving requester ID ",
                          requester_id>>)

get_requester_by_id_Resume ==
    /\ pc = "await"
    /\ tool = "get_requester_by_id"
    /\ acc' = acc
    /\ \E resp \in ObjectResponses("requesters", args.requester_id) :
        LET unexpected == <<"Unexpected error occurred while retrieving requester ID ",
                            args.requester_id>>
        IN
        /\ Receive(resp)
        /\ CASE IsNotFound(resp) ->
                  Finish([success   |-> FALSE,
                          message   |-> <<"No requester found with ID: ",
                                          args.requester_id>>,
                          requester |-> None])
             [] resp.kind = "status" /\ ~IsNotFound(resp) ->
                  Finish(StatusErrorEnvelope(
                      <<"Failed to retrieve requester with ID ",
                        args.requester_id>>, resp))
             [] resp.kind = "exc" ->
                  Finish(UnexpectedEnvelope(unexpected, ExcText(resp)))
             [] resp.kind = "ok" /\ GetError(resp) # "" ->
                  Finish(UnexpectedEnvelope(unexpected, GetError(resp)))
             [] OTHER ->
                  LET requester == GetObject(resp)
                  IN  Finish([success   |-> TRUE,
                              message   |-> <<"Requester found: ",
                                              strip(Get(requester, "first_name", <<>>)
                                                    \o <<" ">>
                                                    \o Get(requester, "last_name", <<>>))>>,
                              requester |-> _format_requester(requester)])

-----------------------------------------------------------------------------
(* RequestersAPI.search_requesters_by_name (freshservice_api/requesters.py), *)
(* called directly, with the names as they are: its exceptions reach the    *)
(* caller                                                                   *)

RequestersAPI_search_requesters_by_name_Call ==
    \E first_name \in OptionalStrings, last_name \in OptionalStrings,
       auth_ok \in BOOLEAN :
        /\ Begin("RequestersAPI.search_requesters_by_name",
                 [first_name |-> first_name, last_name |-> last_name])
        /\ LET q == requesters_query(first_name, last_name)
           IN  IF q.raises
               THEN /\ Raise("ValueError")
                    /\ requests' = <<>>
                    /\ auth_calls' = 0
                    /\ clients' = 0
               ELSE DirectSend(Request("requesters", 0,
                                       BareQuery(quote(q.query)), 0, 0),
                               auth_ok)

RequestersAPI_search_requesters_by_name_Resume ==
    /\ pc = "await"
    /\ tool = "RequestersAPI.search_requesters_by_name"
    /\ UNCHANGED <<tool, args, page, acc, requests, auth_calls, clients>>
    /\ \E resp \in SearchResponses("requesters") :
        /\ Receive(resp)
        /\ CASE resp.kind \in {"status", "exc"} -> Raise(ExcText(resp)[1])
             [] resp.kind = "ok" /\ resp.shape = "invalid" ->
                  Raise("JSONDecodeError")
             [] OTHER -> Return([value |-> [shape |-> resp.shape,
                                            items |-> resp.items]])

-----------------------------------------------------------------------------
(* Service item tools (freshservice_mcp/service.py over                   *)
(* freshservice_api/service.py)                                           *)

\* the parsed body of a 2xx response, as get_all_service_items keeps it
\* faulty variant: only the first item of the page is kept
PageObject_first(resp) ==
    [shape |-> resp.shape,
     items |-> IF resp.items = <<>> THEN <<>> ELSE <<resp.items[1]>>]

PageObject(resp) == [shape |-> resp.shape, items |-> resp.items]

\* page.get("service_items", []) of a kept page object
PageObjectItems(page_object) ==
    IF page_object.shape = "keyed" THEN page_object.items ELSE <<>>

\* sum(len(page.get("service_items", [])) for page in all_items)
RECURSIVE CountItems(_)
CountItems(all_items) ==
    IF all_items = <<>> THEN 0
    ELSE Len(PageObjectItems(Head(all_items))) + CountItems(Tail(all_items))

\* faulty variant: the upper limit is not checked
per_page_invalid_low(per_page) == per_page < 1

\* `per_page < 1 or per_page > 100`
per_page_invalid(per_page) == per_page < MinPerPage \/ per_page > MaxPerPage

list_all_service_items_Call ==
    \E per_page \in OptionalPerPageArgs, auth_ok \in BOOLEAN :
        /\ Begin("list_all_service_items", [per_page |-> per_page])
        /\ IF per_page.is_none
           THEN \* None < 1 raises TypeError, outside the try block
                /\ Raise("TypeError")
                /\ requests' = <<>>
                /\ auth_calls' = 0
                /\ clients' = 0
           ELSE IF per_page_invalid(per_page.val)
           THEN ReturnEarly(ValidationEnvelope("per_page must be between 1 and 100"))
           ELSE ApiSend(<<>>, 0, 0,
                        Request("service_items", 0, NoQuery, 1, per_page.val),
                        auth_ok, "Unexpected error occurred: ")

list_all_service_items_Resume ==
    /\ pc = "await"
    /\ tool = "list_all_service_items"
    /\ \E resp \in PageResponses("service_items", page, args.per_page.val) :
        /\ Receive(resp)
        /\ CASE resp.kind = "status" ->
                  /\ Finish(StatusErrorEnvelope(
                         "Failed to fetch list of service items: ", resp))
                  /\ acc' = acc
             [] resp.kind = "exc" ->
                  /\ Finish(UnexpectedEnvelope("Unexpected error occurred: ",
                                               ExcText(resp)))
                  /\ acc' = acc
             [] resp.kind = "ok" /\ resp.shape = "invalid" ->
                  /\ Finish(UnexpectedEnvelope("Unexpected error occurred: ",
                                               GetError(resp)))
                  /\ acc' = acc
             [] resp.kind = "ok" /\ resp.shape # "invalid"
                                 /\ GetError(resp) # "" ->
                  \* the page object is appended before data.get raises
                  /\ Finish(UnexpectedEnvelope("Unexpected error occurred: ",
                                               GetError(resp)))
                  /\ acc' = Append(acc, PageObject(resp))
             [] OTHER ->
                  LET all_items == Append(acc, PageObject(resp))
                      items_in_page == GetItems(resp)
                  IN  /\ acc' = all_items
                      /\ IF ShortPage(items_in_page, args.per_page.val)
                         THEN Finish([success     |-> TRUE,
                                      items       |-> all_items,
                                      total_count |-> CountItems(all_items),
                                      pagination  |->
                                          [per_page    |-> args.per_page.val,
                                           total_pages |-> Len(all_items)]])
                         ELSE /\ page' = page + 1
                              /\ UNCHANGED <<tool, args>>
                              /\ \E auth_ok \in BOOLEAN :
                                    ApiSend(requests, auth_calls, clients,
                                            Request("service_items", 0, NoQuery,
                                                    page + 1, args.per_page.val),
                                            auth_ok,
                                            "Unexpected error occurred: ")

search_service_items_Call ==
    \E query \in Strings, auth_ok \in BOOLEAN :
        /\ Begin("search_service_items", [query |-> query])
        /\ IF ~Truthy(query) \/ ~Truthy(strip(query))
           THEN ReturnEarly(ValidationEnvelope(
                    "Query is required and cannot be empty"))
           ELSE ApiSend(<<>>, 0, 0,
                        Request("service_items", 0,
                                QuotedQuery(quote(strip(query))), 0, 0),
                        auth_ok,
                        "Unexpected error occurred while searching service items: ")

search_service_items_Resume ==
    /\ pc = "await"
    /\ tool = "search_service_items"
    /\ acc' = acc
    /\ \E resp \in SearchResponses("service_items") :
        LET unexpected == "Unexpected error occurred while searching service items: "
        IN
        /\ Receive(resp)
        /\ CASE resp.kind = "status" ->
                  Finish(StatusErrorEnvelope(
                      <<"Failed to search service items with query ", args.query>>,
                      resp))
             [] resp.kind = "exc" ->
                  Finish(UnexpectedEnvelope(unexpected, ExcText(resp)))
             [] resp.kind = "ok" /\ GetError(resp) # "" ->
                  Finish(UnexpectedEnvelope(unexpected, GetError(resp)))
             [] OTHER ->
                  LET items == GetItems(resp)
                      formatted_items == Map(_format_service_item, items)
                  IN  IF items = <<>>
                      THEN Finish([success     |-> TRUE,
                                   message     |-> <<"No service items found matching query: ",
                                                     args.query>>,
                                   items       |-> <<>>,
                                   total_count |-> 0])
                      ELSE Finish([success     |-> TRUE,
                                   message     |-> <<"Found ", Len(formatted_items),
                                                     " service item(s)">>,
                                   items       |-> formatted_items,
                                   total_count |-> Len(formatted_items)])

get_service_item_by_id_Call ==
    \E display_id \in Ids, auth_ok \in BOOLEAN :
        /\ Begin("get_service_item_by_id", [display_id |-> display_id])
        /\ IF display_id = 0 \/ display_id <= 0
           THEN ReturnEarly(ValidationEnvelope(
                    "Display ID is required and must be a positive integer"))
           ELSE ApiSend(<<>>, 0, 0,
                        Request("service_items", display_id, NoQuery, 0, 0),
                        auth_ok,
                        <<"Unexpected error occurred while retrieving service item ID ",
                          display_id>>)

get_service_item_by_id_Resume ==
    /\ pc = "await"
    /\ tool = "get_service_item_by_id"
    /\ acc' = acc
    /\ \E resp \in ObjectResponses("service_items", args.display_id) :
        LET unexpected == <<"Unexpected error occurred while retrieving service item ID ",
                            args.display_id>>
        IN
        /\ Receive(resp)
        /\ CASE IsNotFound(resp) ->
                  Finish([success |-> FALSE,
                          message |-> <<"No service item found with display ID: ",
                                        args.display_id>>,
                          item    |-> None])
             [] resp.kind = "status" /\ ~IsNotFound(resp) ->
                  Finish(StatusErrorEnvelope(
                      <<"Failed to retrieve service item with display ID ",
                        args.display_id>>, resp))
             [] resp.kind = "exc" ->
                  Finish(UnexpectedEnvelope(unexpected, ExcText(resp)))
             [] resp.kind = "ok" /\ GetError(resp) # "" ->
                  Finish(UnexpectedEnvelope(unexpected, GetError(resp)))
             [] OTHER ->
                  LET item == GetObject(resp)
                  IN  Finish([success |-> TRUE,
                              message |-> <<"Service item found: ",
                                            Get(item, "name", "Unknown")>>,
                              item    |-> _format_service_item(item)])

-----------------------------------------------------------------------------
(* Solution tools (freshservice_mcp/solutions.py over                     *)
(* freshservice_api/solutions.py)                                         *)

\* the request of SolutionsAPI.search_articles
articles_request(search_term, p, n) ==
    Request("articles/search", 0, SearchTerm(quote(search_term)), p, n)

\* what SolutionsAPI.search_articles returns for a 2xx body: the articles
\* under the key are cleaned when there are any, a bare list is returned
\* as it came
search_articles_data(resp) ==
    IF resp.shape = "keyed" /\ resp.items # <<>>
    THEN [resp EXCEPT !.items = Map(clean_html_content, resp.items)]
    ELSE resp

\* faulty variant: the articles under the key are cleaned here once more
articles_of_page_cleaned_again(data) ==
    IF data.shape \in {"keyed", "list"}
    THEN [i \in 1..Len(data.items) |-> clean_html_content(data.items[i])]
    ELSE <<>>

\* what one turn of the loop of search_all_articles adds to all_articles:
\* data["articles"] as search_articles left it, or the items of a bare list,
\* cleaned here
articles_of_page(data) ==
    IF data.shape = "keyed" THEN data.items
    ELSE IF data.shape = "list" THEN Map(clean_html_content, data.items)
    ELSE <<>>

\* faulty variant: every article that has a status is kept
is_published_any(article) == "status" \in DOMAIN article

\* article.get("status") == 2
is_published(article) ==
    "status" \in DOMAIN article /\ article.status = PublishedStatus

\* faulty variant: total_count counts the articles found, published or not
solutions_envelope_count_found(all_articles, search_term) ==
    [success     |-> TRUE,
     message     |-> <<"Found published articles for search term: ",
                       Len(all_articles), search_term, Len(all_articles)>>,
     articles    |-> Map(_format_article, Filter(is_published, all_articles)),
     total_count |-> Len(all_articles),
     total_found |-> Len(all_articles),
     search_term |-> search_term]

\* the success envelopes of search_solutions
solutions_envelope(all_articles, search_term) ==
    LET published_articles == Filter(is_published, all_articles)
    IN  IF all_articles = <<>>
        THEN [success     |-> TRUE,
              message     |-> <<"No articles found for search term: ", search_term>>,
              articles    |-> <<>>,
              total_count |-> 0]
        ELSE IF published_articles = <<>>
        THEN [success     |-> TRUE,
              message     |-> <<"No published articles found for search term: ",
                                search_term, Len(all_articles)>>,
              articles    |-> <<>>,
              total_count |-> 0,
              total_found |-> Len(all_articles),
              search_term |-> search_term]
        ELSE [success     |-> TRUE,
              message     |-> <<"Found published articles for search term: ",
                                Len(published_articles), search_term,
                                Len(all_articles)>>,
              articles    |-> Map(_format_article, published_articles),
              total_count |-> Len(published_articles),
              total_found |-> Len(all_articles),
              search_term |-> search_term]

search_solutions_Call ==
    \E search_term \in Strings, auth_ok \in BOOLEAN :
        /\ Begin("search_solutions", [search_term |-> search_term])
        /\ IF ~Truthy(search_term) \/ ~Truthy(strip(search_term))
           THEN ReturnEarly(ValidationEnvelope(
                    "Search term is required and cannot be empty"))
           ELSE ApiSend(<<>>, 0, 0,
                        articles_request(strip(search_term), 1, PerPage),
                        auth_ok,
                        <<"Unexpected error occurred while searching for articles with term ",
                          search_term>>)

search_solutions_Resume ==
    /\ pc = "await"
    /\ tool = "search_solutions"
    /\ \E resp \in PageResponses("articles", page, PerPage) :
        LET unexpected == <<"Unexpected error occurred while searching for articles with term ",
                            args.search_term>>
        IN
        /\ Receive(resp)
        /\ CASE resp.kind = "status" ->
                  /\ Finish(StatusErrorEnvelope(
                         <<"Failed to search for articles with term ",
                           args.search_term>>, resp))
                  /\ acc' = acc
             [] resp.kind = "exc" ->
                  /\ Finish(UnexpectedEnvelope(unexpected, ExcText(resp)))
                  /\ acc' = acc
             [] resp.kind = "ok" /\ MembershipError(resp) # "" ->
                  /\ Finish(UnexpectedEnvelope(unexpected, MembershipError(resp)))
                  /\ acc' = acc
             [] OTHER ->
                  LET data == search_articles_data(resp)
                      articles == articles_of_page(data)
                      all_articles == acc \o articles
                  IN  /\ acc' = all_articles
                      /\ IF ShortPage(articles, PerPage)
                         THEN Finish(solutions_envelope(all_articles,
                                                        args.search_term))
                         ELSE /\ page' = page + 1
                              /\ UNCHANGED <<tool, args>>
                              /\ \E auth_ok \in BOOLEAN :
                                    ApiSend(requests, auth_calls, clients,
                                            articles_request(strip(args.search_term),
                                                             page + 1, PerPage),
                                            auth_ok, unexpected)

\* faulty variant: has_more is set when the page holds any article
paginated_envelope_more_when_any(articles, search_term, p, per_page) ==
    [success        |-> TRUE,
     message        |-> <<"Found published articles for search term: ",
                          Len(Filter(is_published, articles)), search_term, p,
                          Len(articles)>>,
     articles       |-> Map(_format_article, Filter(is_published, articles)),
     page           |-> p,
     per_page       |-> per_page,
     returned_count |-> Len(Filter(is_published, articles)),
     total_found    |-> Len(articles),
     search_term    |-> search_term,
     has_more       |-> articles # <<>>]

\* the success envelopes of search_solutions_paginated
paginated_envelope(articles, search_term, p, per_page) ==
    LET published_articles == Filter(is_published, articles)
    IN  IF articles = <<>>
        THEN [success     |-> TRUE,
              message     |-> <<"No articles found for search term: ",
                                search_term, p>>,
              articles    |-> <<>>,
              page        |-> p,
              per_page    |-> per_page,
              total_count |-> 0]
        ELSE IF published_articles = <<>>
        THEN [success        |-> TRUE,
              message        |-> <<"No published articles found for search term: ",
                                   search_term, p, Len(articles)>>,
              articles       |-> <<>>,
              page           |-> p,
              per_page       |-> per_page,
              returned_count |-> 0,
              total_found    |-> Len(articles),
              search_term    |-> search_term,
              has_more       |-> Len(articles) = per_page]
        ELSE [success        |-> TRUE,
              message        |-> <<"Found published articles for search term: ",
                                   Len(published_articles), search_term, p,
                                   Len(articles)>>,
              articles       |-> Map(_format_article, published_articles),
              page           |-> p,
              per_page       |-> per_page,
              returned_count |-> Len(published_articles),
              total_found    |-> Len(articles),
              search_term    |-> search_term,
              has_more       |-> Len(articles) = per_page]

search_solutions_paginated_Call ==
    \E search_term \in Strings, p \in PageArgs, per_page \in PerPageArgs,
       auth_ok \in BOOLEAN :
        /\ Begin("search_solutions_paginated",
                 [search_term |-> search_term, page |-> p, per_page |-> per_page])
        /\ IF ~Truthy(search_term) \/ ~Truthy(strip(search_term))
           THEN ReturnEarly(ValidationEnvelope(
                    "Search term is required and cannot be empty"))
           ELSE IF p < 1
           THEN ReturnEarly(ValidationEnvelope("Page number must be 1 or greater"))
           ELSE IF per_page_invalid(per_page)
           THEN ReturnEarly(ValidationEnvelope(
                    "Items per page must be between 1 and 100"))
           ELSE ApiSend(<<>>, 0, 0,
                        articles_request(strip(search_term), p, per_page),
                        auth_ok,
                        <<"Unexpected error occurred while searching for articles with term ",
                          search_term>>)

search_solutions_paginated_Resume ==
    /\ pc = "await"
    /\ tool = "search_solutions_paginated"
    /\ acc' = acc
    /\ \E resp \in PageResponses("articles", args.page, args.per_page) :
        LET unexpected == <<"Unexpected error occurred while searching for articles with term ",
                            args.search_term>>
        IN
        /\ Receive(resp)
        /\ CASE resp.kind = "status" ->
                  Finish(StatusErrorEnvelope(
                      <<"Failed to search for articles with term ",
                        args.search_term>>, resp))
             [] resp.kind = "exc" ->
                  Finish(UnexpectedEnvelope(unexpected, ExcText(resp)))
             [] resp.kind = "ok" /\ GetError(resp) # "" ->
                  Finish(UnexpectedEnvelope(unexpected, GetError(resp)))
             [] OTHER ->
                  Finish(paginated_envelope(GetItems(search_articles_data(resp)),
                                            args.search_term, args.page,
                                            args.per_page))

-----------------------------------------------------------------------------
-----------------------------------------------------------------------------
(* The Content Normalizer, called directly (freshservice_api/solutions.py) *)

\* HTML and plain texts
HtmlStrings ==
    { <<>>,
      <<" ">>,
      <<"a", "b">>,
      <<"<p>", "a", "_", "b", "</p>">>,
      <<"a", " ", "\t", " ", "b">>,
      <<"<b>", "x", "</b>", "\n", "\n", "\n", "y">>,
      <<"\n", " ", "\n", "\t", "\n", "x", "\n", "\n">>,
      <<"<script>", "x", "</script>">> }

\* the values of a text field of an article
FieldValues ==
    {None, <<>>, <<"a", "b">>, <<"<p>", "a", "_", "b", "</p>">>,
     <<"a", " ", " ", "b", "\n">>}

\* article mappings: with and without the text fields, with fields that
\* are not text fields
ArticleMappings ==
    {[id |-> 7, status |-> PublishedStatus, tags |-> <<"<b>", "_">>,
      title |-> t, description |-> d] : t \in FieldValues, d \in FieldValues}
        \cup {[id |-> 7, summary |-> s, folder |-> <<"<p>", " ", " ">>] :
                 s \in FieldValues}

\* the arguments of clean_html_content: strings, mappings, the empty
\* mapping, and None and a list, which are neither
NormalizerInputs ==
    {Typed("str", s) : s \in HtmlStrings}
        \cup {Typed("dict", a) : a \in ArticleMappings}
        \cup {Typed("empty", <<>>)}
        \cup {Typed("other", v) : v \in {None, <<"<p>", "a", "</p>">>}}

\* a caller passes a value to clean_html_content
clean_html_content_Call ==
    \E content \in NormalizerInputs :
        /\ Begin("clean_html_content", [content |-> content])
        /\ pc' = "running"
        /\ result' = NoResult
        /\ requests' = <<>>
        /\ auth_calls' = 0
        /\ clients' = 0

\* clean_html_content runs and returns; the mapping it was passed is not
\* assigned to
clean_html_content_Return ==
    /\ pc = "running"
    /\ tool = "clean_html_content"
    /\ Return([value |-> clean_html_value(args.content)])
    /\ UNCHANGED <<tool, args, page, acc, requests, responses, auth_calls,
                   clients, suspended, running>>

\* the caller passes what clean_html_content returned to it once more
clean_html_content_Again ==
    /\ pc = "returned"
    /\ tool = "clean_html_content"
    /\ LET content == Typed(TypeOf(args.content), result.value)
       IN  /\ args' = [content |-> content]
           /\ result' = [value |-> clean_html_value(content)]
           /\ pc' = "returned again"
    /\ UNCHANGED <<tool, page, acc, requests, responses, auth_calls, clients,
                   suspended, running>>

\* the tools the server registers
Tools == {"list_all_departments", "get_department_by_name", "get_department_id",
          "search_requesters_by_name", "get_requesters_by_department_id",
          "get_requester_by_id", "list_all_service_items",
          "search_service_items", "get_service_item_by_id",
          "search_solutions", "search_solutions_paginated"}

Init ==
    /\ pc = "idle"
    /\ tool = "none"
    /\ args = NoArgs
    /\ page = 1
    /\ acc = <<>>
    /\ requests = <<>>
    /\ responses = <<>>
    /\ result = NoResult
    /\ auth_calls = 0
    /\ clients = 0
    /\ suspended = <<>>
    /\ running = 0

Next ==
    \/ get_all_departments_Call
    \/ get_all_departments_Resume
    \/ list_all_departments_Call
    \/ list_all_departments_Resume
    \/ get_department_by_name_Call
    \/ get_department_by_name_Resume
    \/ get_department_id_Call
    \/ get_department_id_Resume
    \/ search_requesters_by_name_Call
    \/ search_requesters_by_name_Resume
    \/ get_requesters_by_department_id_Call
    \/ get_requesters_by_department_id_Resume
    \/ get_requester_by_id_Call
    \/ get_requester_by_id_Resume
    \/ RequestersAPI_search_requesters_by_name_Call
    \/ RequestersAPI_search_requesters_by_name_Resume
    \/ list_all_service_items_Call
    \/ list_all_service_items_Resume
    \/ search_service_items_Call
    \/ search_service_items_Resume
    \/ get_service_item_by_id_Call
    \/ get_service_item_by_id_Resume
    \/ search_solutions_Call
    \/ search_solutions_Resume
    \/ search_solutions_paginated_Call
    \/ search_solutions_paginated_Resume
    \/ clean_html_content_Call
    \/ clean_html_content_Return
    \/ clean_html_content_Again

Spec == Init /\ [][Next]_vars

-----------------------------------------------------------------------------
(* Concurrent invocations.  FastMCP runs the tool coroutines on one event   *)
(* loop: a coroutine runs until it awaits its HTTP request or returns, and  *)
(* then another one may run.  What an invocation works with are the locals  *)
(* of its coroutine (the page counter, the accumulator, the client and the  *)
(* response of the request it awaits); the Resource Client objects, made    *)
(* once by register_*_tools and shared, hold the domain and the             *)
(* auth-header callback, which no method assigns to.                        *)

\* invocation 0 runs alone, from its call to its return; invocations 1 and 2
\* are then in progress together
Invocations == {0, 1, 2}

\* the locals of the running coroutine
Frame ==
    [pc |-> pc, tool |-> tool, args |-> args, page |-> page, acc |-> acc,
     requests |-> requests, responses |-> responses, result |-> result,
     auth_calls |-> auth_calls, clients |-> clients]

\* the locals of a coroutine that has not started
FreshFrame ==
    [pc |-> "idle", tool |-> "none", args |-> NoArgs, page |-> 1,
     acc |-> <<>>, requests |-> <<>>, responses |-> <<>>,
     result |-> NoResult, auth_calls |-> 0, clients |-> 0]

\* the locals of invocation i
FrameOf(i) == IF i = running THEN Frame ELSE suspended[i]

Finished(frame) == frame.pc \in {"returned", "raised"}

\* faulty variant: the accumulator is kept on the shared Resource Client,
\* the coroutine that resumes finds what the other one left there
SavedAcc_shared(frame) == acc

\* the accumulator the coroutine finds when it resumes: its own local
SavedAcc(frame) == frame.acc

\* the event loop leaves the running coroutine, which awaits its request or
\* has returned, and starts or resumes invocation j; of the invocations 1
\* and 2 the one that starts first is called 1
Switch(j) ==
    /\ j \in DOMAIN suspended
    /\ j # 0
    /\ running = 0 => Finished(Frame)
    /\ j = 2 => FrameOf(1).tool # "none"
    /\ ~Finished(suspended[j])
    /\ suspended' = [i \in (DOMAIN suspended \ {j}) \cup {running} |->
                        IF i = running THEN Frame ELSE suspended[i]]
    /\ running' = j
    /\ pc' = suspended[j].pc
    /\ tool' = suspended[j].tool
    /\ args' = suspended[j].args
    /\ page' = suspended[j].page
    /\ acc' = SavedAcc(suspended[j])
    /\ requests' = suspended[j].requests
    /\ responses' = suspended[j].responses
    /\ result' = suspended[j].result
    /\ auth_calls' = suspended[j].auth_calls
    /\ clients' = suspended[j].clients

\* what the backend tells requests apart by
RequestKey(req) ==
    [resource |-> req.resource, id |-> req.id, query |-> req.query,
     page |-> req.page, per_page |-> req.per_page]

\* the requests answered so far, each with its response
Answered(frame) ==
    {<<RequestKey(frame.requests[i]), frame.responses[i]>> :
        i \in 1..Len(frame.responses)}

\* the backends the concurrent invocations run against answer a request
\* with a full page of items of its own, an empty page or an object under
\* the key, with 404 and a JSON body, or not at all
ConcurrentResponse(req, resp) ==
    \/ resp.kind = "exc"
    \/ resp.kind = "status" /\ resp.status = NotFoundStatus /\ resp.is_json
    \/ /\ resp.kind = "ok"
       /\ resp.shape = "keyed"
       /\ Len(resp.items) \in {0, req.per_page} \cup {k \in {1} : req.page = 0}
       /\ (req.page > 0 /\ resp.items # <<>>) =>
              resp.items[1].id = ItemId(req.page, 1, "fresh")

\* the response the running coroutine received last is one of such a
\* backend, whose response depends on the request only: a request that was
\* answered before got the same response; and the auth-header callback
\* gives headers each time it is called
SameBackend ==
    /\ auth_calls = clients
    /\ responses # <<>> =>
          LET req == requests[Len(responses)]
              resp == responses[Len(responses)]
          IN  /\ ConcurrentResponse(req, resp)
              /\ \A i \in DOMAIN suspended :
                    \A a \in Answered(suspended[i]) :
                        a[1] = RequestKey(req) => a[2] = resp

\* invocations 1 and 2 are invocations of a tool, with the arguments
\* invocation 0 was made with
SameCall ==
    /\ tool \in Tools \cup {"none"}
    /\ running # 0 =>
          \/ tool = "none"
          \/ tool = suspended[0].tool /\ args = suspended[0].args

ConcurrentInit ==
    /\ pc = "idle"
    /\ tool = "none"
    /\ args = NoArgs
    /\ page = 1
    /\ acc = <<>>
    /\ requests = <<>>
    /\ responses = <<>>
    /\ result = NoResult
    /\ auth_calls = 0
    /\ clients = 0
    /\ suspended = [i \in {1, 2} |-> FreshFrame]
    /\ running = 0

ConcurrentNext ==
    \/ Next /\ SameCall' /\ SameBackend'
    \/ \E j \in Invocations : Switch(j)

ConcurrentSpec == ConcurrentInit /\ [][ConcurrentNext]_vars

-----------------------------------------------------------------------------
(* Vocabulary of the properties *)

LookupTools == {"get_department_id", "get_requester_by_id",
                "get_service_item_by_id"}

\* the invocation runs the requester aggregation
AllRequesters == tool = "get_requesters_by_department_id" /\ args.get_all

\* the invocation runs an aggregator that flattens the pages
Flattening ==
    tool \in {"get_all_departments", "list_all_departments", "search_solutions"}
        \/ AllRequesters

\* the invocation runs an aggregating tool
AggregatingTool ==
    tool \in {"list_all_departments", "search_solutions",
              "list_all_service_items"}
        \/ AllRequesters

IsSuccessEnvelope(r) == "success" \in DOMAIN r /\ r.success

IsErrorEnvelope(r) == "error" \in DOMAIN r

IsValidationError(r) == DOMAIN r = {"error"} /\ r.error[1] = "validation"

\* the response is a page of items, in one of the two shapes, or a mapping
\* without the key, which is a page of no items
IsItemPage(resp) == resp.kind = "ok" /\ resp.shape \in {"keyed", "list", "nokey"}

\* the request failed: a non-2xx status or a transport exception
IsFailure(resp) == resp.kind \in {"status", "exc"}

\* the items of all the pages received, in page order then in-page order
ReceivedItems == Flatten([i \in 1..Len(responses) |-> responses[i].items])

\* the requests made so far are for pages 1, 2, ..., each of n items
RequestedPages(n) ==
    \A i \in 1..Len(requests) :
        requests[i].page = i /\ requests[i].per_page = n

\* the value the invocation hands back holds exactly `items`
Returns(items) ==
    CASE tool = "get_all_departments"  -> result = [value |-> items]
      [] tool = "list_all_departments" ->
            IsSuccessEnvelope(result) /\ result.departments = items
      [] tool = "get_requesters_by_department_id" ->
            IsSuccessEnvelope(result)
                /\ result.requesters = Map(_format_requester, items)
      [] tool = "search_solutions" -> IsSuccessEnvelope(result)

-----------------------------------------------------------------------------
(* C1 *)

\* pages 1..p-1 were full and page p is short
C1_ShortPageAfterFullPages ==
    /\ responses # <<>>
    /\ \A i \in 1..Len(responses) : IsItemPage(responses[i])
    /\ \A i \in 1..(Len(responses) - 1) : Len(responses[i].items) >= 100
    /\ Len(responses[Len(responses)].items) < 100

\* C1: a flattening aggregator (get_all_departments, the requester
\* aggregation, search_all_articles, list_all_departments) whose pages
\* 1..p-1 hold at least 100 items and whose page p holds fewer has
\* requested exactly the pages 1..p, 100 items each, and returns the items
\* of these pages in page order then in-page order, articles normalized.
C1_FlatteningAggregatorsStopAtShortPage ==
    (Flattening /\ C1_ShortPageAfterFullPages) =>
        /\ pc = "returned"
        /\ Len(requests) = Len(responses)
        /\ RequestedPages(100)
        /\ acc = IF tool = "search_solutions"
                 THEN Map(clean_html_content, ReceivedItems)
                 ELSE ReceivedItems
        /\ Returns(acc)

\* two pages of articles, the first a full bare list, the second short
C1_Witness ==
    /\ tool = "search_solutions"
    /\ pc = "returned"
    /\ Len(responses) = 2
    /\ responses[1].shape = "list"
    /\ responses[2].shape = "keyed"
    /\ Len(responses[2].items) = 99
    /\ Len(acc) = 199
    /\ IsSuccessEnvelope(result)

-----------------------------------------------------------------------------
(* C2 *)

\* the number of items a backend holding total items serves on page i
Served(total, per_page, i) ==
    LET left == total - (i - 1) * per_page
    IN  IF left <= 0 THEN 0 ELSE IF left >= per_page THEN per_page ELSE left

\* every response so far is what a backend holding total items serves
ServedFrom(total, per_page) ==
    \A i \in 1..Len(responses) :
        /\ responses[i].kind = "ok"
        /\ responses[i].shape = "keyed"
        /\ Len(responses[i].items) = Served(total, per_page, i)

\* the aggregation was not cut short by the auth-header callback
AuthHeld == auth_calls = clients

\* C2: list_all_service_items with per_page in 1..100 against a backend that
\* holds T items issues exactly T \div per_page + 1 requests and then
\* succeeds; when T is a multiple of per_page the last request is the one
\* extra request, and its page is empty.
C2_ServiceItemsRequestCount ==
    (/\ tool = "list_all_service_items"
     /\ ~args.per_page.is_none
     /\ args.per_page.val \in 1..100
     /\ AuthHeld) =>
        LET per_page == args.per_page.val
        IN  \A total \in 0..(per_page * MaxPages) :
                ServedFrom(total, per_page) =>
                    LET n == (total \div per_page) + 1
                    IN  /\ Len(requests) <= n
                        /\ RequestedPages(per_page)
                        /\ pc = "returned" => Len(requests) = n
                        /\ Len(responses) = n =>
                              /\ pc = "returned"
                              /\ IsSuccessEnvelope(result)
                              /\ result.pagination.total_pages = n
                              /\ result.total_count = total
                              /\ (total % per_page = 0 =>
                                    responses[n].items = <<>>)

\* per_page = 100 and 100 items: a full page, then the empty one
C2_Witness ==
    /\ tool = "list_all_service_items"
    /\ pc = "returned"
    /\ args.per_page = Some(100)
    /\ Len(requests) = 2
    /\ Len(responses) = 2
    /\ responses[1].shape = "keyed"
    /\ Len(responses[1].items) = 100
    /\ responses[2].shape = "keyed"
    /\ responses[2].items = <<>>
    /\ IsSuccessEnvelope(result)

-----------------------------------------------------------------------------
(* C3 *)

\* C3: in an aggregating tool a failed page request is the last request of
\* the invocation (page p is not asked for again, no later page is asked
\* for) and the tool returns an error envelope, which holds the error alone:
\* nothing of the pages before.
C3_FailedPageAbortsAggregation ==
    AggregatingTool =>
        \A i \in 1..Len(responses) :
            IsFailure(responses[i]) =>
                /\ i = Len(responses)
                /\ Len(requests) = i
                /\ \A j \in 1..i : requests[j].page = j
                /\ pc = "returned"
                /\ IsErrorEnvelope(result)
                /\ DOMAIN result \subseteq {"error", "status_code", "details"}
                /\ "details" \in DOMAIN result =>
                      IF responses[i].is_json
                      THEN result.details = ErrorJson(responses[i])
                      ELSE result.details = ErrorText(responses[i])

\* the second page fails after a first page of 100 requesters
C3_Witness ==
    /\ AllRequesters
    /\ pc = "returned"
    /\ Len(responses) = 2
    /\ IsFailure(responses[2])
    /\ Len(acc) = 100
    /\ IsErrorEnvelope(result)

-----------------------------------------------------------------------------
(* C4 *)

\* the page size of the aggregation the invocation runs
AggregationPerPage ==
    IF tool = "list_all_service_items" THEN args.per_page.val ELSE PerPage

\* the number of items the response carries, in either shape
ItemCount(resp) == IF resp.shape \in {"keyed", "list"} THEN Len(resp.items) ELSE 0

\* the page is short of n items, or the request for it failed (a request
\* whose body is not JSON counts as failed)
ShortOrFailed(resp, n) ==
    IsFailure(resp) \/ resp.shape = "invalid" \/ ItemCount(resp) < n

\* the invocation runs an aggregator and has issued a request
Aggregating ==
    /\ AggregatingTool \/ tool = "get_all_departments"
    /\ requests # <<>>

\* C4: an aggregator invocation has terminated exactly when some page it
\* asked for came back short or failed (a request that the auth-header
\* callback kept from being issued counts as failed): while every page is
\* full it goes on asking, whatever the number of pages.
C4_TerminatesExactlyOnShortOrFailedPage ==
    Aggregating =>
        (pc \in {"returned", "raised"}
            <=> \/ \E i \in 1..Len(responses) :
                      ShortOrFailed(responses[i], AggregationPerPage)
                \/ ~AuthHeld)

-----------------------------------------------------------------------------
(* C5 *)

\* the backend answered the lookup with 404
NotFoundAnswer ==
    /\ tool \in LookupTools
    /\ Len(responses) = 1
    /\ responses[1].kind = "status"
    /\ responses[1].status = 404

\* the key of the payload of a lookup tool
PayloadKey ==
    CASE tool = "get_department_id"      -> "department"
      [] tool = "get_requester_by_id"    -> "requester"
      [] tool = "get_service_item_by_id" -> "item"

\* C5: a lookup-by-id tool that the backend answers with 404 returns
\* success: false with a null payload and a message, and no `error` key;
\* get_department_id returns exactly {success: false, department: null,
\* message: "No department found with ID: <id>"}.
C5_NotFoundIsNotAnError ==
    NotFoundAnswer =>
        /\ pc = "returned"
        /\ DOMAIN result = {"success", "message", PayloadKey}
        /\ result.success = FALSE
        /\ result[PayloadKey] = None
        /\ tool = "get_department_id" =>
              result = [success    |-> FALSE,
                        department |-> None,
                        message    |-> <<"No department found with ID: ",
                                         args.department_id>>]

\* get_department_id(9999) answered with 404
C5_Witness ==
    /\ tool = "get_department_id"
    /\ args.department_id = 9999
    /\ NotFoundAnswer
    /\ pc = "returned"
    /\ result.success = FALSE

-----------------------------------------------------------------------------
(* C6 *)

\* C6: a non-2xx status s, other than 404 on a lookup by id, gives an error
\* envelope whose status_code is s and whose details is the parsed error
\* body, or the text of the body when it is not JSON; it never gives an
\* envelope with a `success` key.
C6_RemoteErrorEnvelope ==
    \A i \in 1..Len(responses) :
        (/\ tool \in Tools
         /\ responses[i].kind = "status"
         /\ ~(tool \in LookupTools /\ responses[i].status = 404)) =>
            /\ pc = "returned"
            /\ DOMAIN result = {"error", "status_code", "details"}
            /\ result.status_code = responses[i].status
            /\ IF responses[i].is_json
               THEN result.details = ErrorJson(responses[i])
               ELSE result.details = ErrorText(responses[i])

\* a search answered with 404 and a body that is not JSON
C6_Witness ==
    /\ tool = "get_department_by_name"
    /\ pc = "returned"
    /\ Len(responses) = 1
    /\ responses[1] = StatusError(404, FALSE)
    /\ result.status_code = 404

-----------------------------------------------------------------------------
(* C7 *)

\* the name is None, empty or whitespace only
Blank(name) == name.is_none \/ strip(name.val) = <<>>

\* one clause per name that is not blank
C7_Clauses(first_name, last_name) ==
    (IF Blank(first_name) THEN <<>>
     ELSE << <<"f", "i", "r", "s", "t", "_", "n", "a", "m", "e", ":", "'">>
                \o strip(first_name.val) \o <<"'">> >>)
    \o
    (IF Blank(last_name) THEN <<>>
     ELSE << <<"l", "a", "s", "t", "_", "n", "a", "m", "e", ":", "'">>
                \o strip(last_name.val) \o <<"'">> >>)

\* C7: search_requesters_by_name returns the validation error, without a
\* request, exactly when both names are blank; otherwise it issues one GET,
\* never a second, whose query is the clauses of the names that are not
\* blank joined by " AND " (unless the auth-header callback fails).
C7_RequesterSearchValidation ==
    tool = "search_requesters_by_name" =>
        LET both_blank == Blank(args.first_name) /\ Blank(args.last_name)
            query == join(<<" ", "A", "N", "D", " ">>,
                          C7_Clauses(args.first_name, args.last_name))
        IN  /\ both_blank => /\ pc = "returned"
                             /\ IsValidationError(result)
                             /\ requests = <<>>
            /\ ~both_blank =>
                  /\ ~IsValidationError(result)
                  /\ Len(requests) <= 1
                  /\ AuthHeld =>
                        /\ Len(requests) = 1
                        /\ requests[1].method = "GET"
                        /\ requests[1].resource = "requesters"
                        /\ requests[1].query = BareQuery(quote(query))

\* a blank first name and a last name: one request, for the last name alone
C7_Witness ==
    /\ tool = "search_requesters_by_name"
    /\ args.first_name = Some(<<" ">>)
    /\ args.last_name = Some(<<"F", "i", "n">>)
    /\ pc = "returned"
    /\ Len(requests) = 1
    /\ IsSuccessEnvelope(result)

\* both names empty: the validation error
C7_WitnessBothEmpty ==
    /\ tool = "search_requesters_by_name"
    /\ args.first_name = Some(<<>>)
    /\ args.last_name = Some(<<>>)
    /\ IsValidationError(result)

-----------------------------------------------------------------------------
(* C8 *)

\* an argument of the invocation fails validation
InvalidArguments ==
    \/ tool = "get_department_id" /\ args.department_id <= 0
    \/ tool = "get_requesters_by_department_id" /\ args.department_id <= 0
    \/ tool = "get_requester_by_id" /\ args.requester_id <= 0
    \/ tool = "get_service_item_by_id" /\ args.display_id <= 0
    \/ tool = "get_department_by_name" /\ strip(args.name) = <<>>
    \/ tool = "search_service_items" /\ strip(args.query) = <<>>
    \/ tool = "search_solutions" /\ strip(args.search_term) = <<>>
    \/ /\ tool = "search_solutions_paginated"
       /\ \/ strip(args.search_term) = <<>>
          \/ args.page < 1
          \/ args.per_page \notin 1..100
    \/ /\ tool = "list_all_service_items"
       /\ ~args.per_page.is_none
       /\ args.per_page.val \notin 1..100

\* C8: a tool whose arguments fail validation (an id that is zero or
\* negative, a required string that is empty or whitespace only, page < 1,
\* per_page outside 1..100) returns an error envelope and issues no request.
C8_ValidationBeforeAnyRequest ==
    InvalidArguments =>
        /\ pc = "returned"
        /\ IsErrorEnvelope(result)
        /\ requests = <<>>
        /\ responses = <<>>

\* search_solutions_paginated with per_page = 101
C8_Witness ==
    /\ tool = "search_solutions_paginated"
    /\ strip(args.search_term) # <<>>
    /\ args.page = 1
    /\ args.per_page = 101
    /\ pc = "returned"
    /\ IsErrorEnvelope(result)

-----------------------------------------------------------------------------
(* C9 *)

\* the articles search_all_articles found: the received ones, normalized
FoundArticles == Map(clean_html_content, ReceivedItems)

C9_StatusIsTwo(article) == article.status = 2

\* a search_solutions invocation succeeded
C9_Succeeded ==
    /\ tool = "search_solutions"
    /\ pc = "returned"
    /\ "success" \in DOMAIN result

\* `articles` is the articles found whose status is 2, in the order found,
\* and total_count is their number
C9_PublishedOnly ==
    LET published == Filter(C9_StatusIsTwo, FoundArticles)
    IN  /\ result.success
        /\ result.articles = Map(_format_article, published)
        /\ result.total_count = Len(published)

\* C9, as claimed: a successful search_solutions returns the published
\* articles and reports total_count and total_found, for every number of
\* articles found, zero included.
C9_Original ==
    C9_Succeeded =>
        /\ C9_PublishedOnly
        /\ "total_found" \in DOMAIN result
        /\ result.total_found = Len(FoundArticles)

\* C9, amended: a successful search_solutions returns the published articles
\* in `articles` and their number in total_count; it reports total_found,
\* the number of articles found, when at least one article was found; when
\* none was found the envelope has no total_found.
C9_PublishedAndCounts ==
    C9_Succeeded =>
        /\ C9_PublishedOnly
        /\ IF FoundArticles = <<>>
           THEN "total_found" \notin DOMAIN result
           ELSE /\ "total_found" \in DOMAIN result
                /\ result.total_found = Len(FoundArticles)

\* three articles found, two of them published
C9_Witness ==
    /\ C9_Succeeded
    /\ Len(FoundArticles) = 3
    /\ result.total_found = 3
    /\ result.total_count = 2
    /\ Len(result.articles) = 2

-----------------------------------------------------------------------------
(* C10 *)

\* C10: every invocation of a tool returns an envelope, with exactly one of
\* the keys `success` and `error`; no invocation raises.
C10_AlwaysAnEnvelope ==
    tool \in Tools =>
        /\ pc # "raised"
        /\ pc = "returned" =>
              ("success" \in DOMAIN result) # ("error" \in DOMAIN result)

-----------------------------------------------------------------------------
(* C11 *)

\* C11: every error envelope a tool returns, whatever its cause, holds the
\* three fields `error`, `status_code` and `details`.
C11_UniformErrorEnvelope ==
    (tool \in Tools /\ pc = "returned" /\ IsErrorEnvelope(result)) =>
        {"error", "status_code", "details"} \subseteq DOMAIN result

-----------------------------------------------------------------------------
(* C12 *)

\* the number of items of the first k pages received
RECURSIVE ItemsBefore(_)
ItemsBefore(k) ==
    IF k = 0 THEN 0 ELSE ItemsBefore(k - 1) + Len(responses[k].items)

\* the item as the aggregator keeps it: articles are normalized
Kept(item) ==
    IF tool = "search_solutions" THEN clean_html_content(item) ELSE item

\* C12: the collection a flattening aggregator has accumulated holds as many
\* items as the pages received so far together, the item at index i of page
\* p stands at position (items of pages 1..p-1) + i, so that the order is
\* that of (page number, in-page index), and an item the backend serves on
\* two pages stands there once for each; list_all_departments returns this
\* collection and its length.
C12_OrderAndMultiplicity ==
    Flattening =>
        /\ Len(acc) = ItemsBefore(Len(responses))
        /\ \A p \in 1..Len(responses) :
              \A i \in 1..Len(responses[p].items) :
                  acc[ItemsBefore(p - 1) + i] = Kept(responses[p].items[i])
        /\ (tool = "list_all_departments" /\ IsSuccessEnvelope(result)) =>
              /\ result.departments = acc
              /\ result.total_count = Len(acc)

\* the second page repeats the first item of the first page: the item is
\* returned twice
C12_Witness ==
    /\ tool = "list_all_departments"
    /\ pc = "returned"
    /\ IsSuccessEnvelope(result)
    /\ Len(responses) = 2
    /\ Len(responses[1].items) = 100
    /\ Len(responses[2].items) = 1
    /\ responses[2].items[1] = responses[1].items[1]
    /\ Len(result.departments) = 101
    /\ result.departments[101] = result.departments[1]
    /\ result.departments[2] # result.departments[1]

-----------------------------------------------------------------------------
(* C13 *)

\* C13: in an aggregator invocation at most one request is outstanding, a
\* step issues at most one request, and the request for page p + 1 is
\* issued only by the step that receives the response to page p, when every
\* earlier request has its response and page p holds at least per_page
\* items.
C13_OneRequestAtATime ==
    [][Aggregating =>
        /\ Len(requests') - Len(responses') \in {0, 1}
        /\ Len(requests') <= Len(requests) + 1
        /\ Len(requests') = Len(requests) + 1 =>
              LET p == Len(requests)
              IN  /\ Len(responses) = p - 1
                  /\ Len(responses') = p
                  /\ responses'[p].kind = "ok"
                  /\ ItemCount(responses'[p]) >= AggregationPerPage
                  /\ requests'[p + 1].page = p + 1
                  /\ requests'[p].page = p]_vars

\* the third page is asked for, two full pages were received
C13_Witness ==
    /\ AllRequesters
    /\ pc = "await"
    /\ Len(requests) = 3
    /\ Len(responses) = 2
    /\ Len(responses[2].items) >= 100
    /\ requests[3].page = 3

-----------------------------------------------------------------------------
(* C14 *)

\* C14: the service-item aggregation keeps one page object for each request
\* issued, each the body of the response to that request as it came, in
\* request order; when list_all_service_items succeeds every page but the
\* last holds at least per_page service items and the last holds fewer, and
\* the envelope hands back these page objects, their number as total_pages
\* and the number of their service items as total_count.
C14_ServicePagesNotFlattened ==
    (tool = "list_all_service_items" /\ IsSuccessEnvelope(result)) =>
        LET n == Len(requests)
            per_page == args.per_page.val
        IN  /\ pc = "returned"
            /\ Len(responses) = n
            /\ Len(result.items) = n
            /\ \A i \in 1..n :
                  /\ requests[i].page = i
                  /\ responses[i].kind = "ok"
                  /\ result.items[i].shape = responses[i].shape
                  /\ result.items[i].items = responses[i].items
                  /\ i < n => Len(responses[i].items) >= per_page
            /\ Len(responses[n].items) < per_page
            /\ result.pagination.total_pages = n
            /\ result.pagination.per_page = per_page
            /\ result.total_count = ItemsBefore(n)

\* two pages of two items a page: a full one, then one item
C14_Witness ==
    /\ tool = "list_all_service_items"
    /\ args.per_page = Some(2)
    /\ IsSuccessEnvelope(result)
    /\ Len(requests) = 2
    /\ Len(result.items) = 2
    /\ Len(result.items[1].items) = 2
    /\ Len(result.items[2].items) = 1
    /\ result.total_count = 3
    /\ result.pagination.total_pages = 2

-----------------------------------------------------------------------------
(* C15 *)

\* every response so far is a 2xx response whose body is a mapping, with
\* the collection key or without it, or a list
AllPagesParsed ==
    \A i \in 1..Len(responses) :
        /\ responses[i].kind = "ok"
        /\ responses[i].shape \in {"keyed", "list", "nokey"}

\* C15: an aggregation whose pages all come back 2xx with a mapping or a
\* list for a body does not fail, whatever the shape of the bodies: a body
\* that is a bare list is a page of its elements, a mapping without the key
\* is an empty page, and the aggregation ends, with success, exactly when
\* such a page is short.
C15_BothShapesHandled ==
    (Aggregating /\ AuthHeld /\ AllPagesParsed) =>
        /\ pc # "raised"
        /\ ~IsErrorEnvelope(result)
        /\ pc = "returned" <=>
              \E i \in 1..Len(responses) :
                  ItemCount(responses[i]) < AggregationPerPage

-----------------------------------------------------------------------------
(* C17 *)

\* C17: no two requests of an invocation are made with the headers of the
\* same call of the auth-header callback, nor in the same client context:
\* the callback is called and a client is opened for each request.
C17_FreshHeadersAndClientPerRequest ==
    tool \in Tools =>
        \A i, j \in 1..Len(requests) :
            i # j => /\ requests[i].headers # requests[j].headers
                     /\ requests[i].client # requests[j].client

-----------------------------------------------------------------------------
(* C18 *)

\* the tools that go through the methods of the Resource Clients; the
\* department tools issue their requests themselves
ThroughResourceClient ==
    tool \in (Tools \ {"list_all_departments", "get_department_by_name",
                        "get_department_id"}) \cup {"get_all_departments"}

\* the tools that call one method of a Resource Client once
SingleRequestTool ==
    \/ tool \in {"get_department_by_name", "get_department_id",
                 "search_requesters_by_name", "get_requester_by_id",
                 "search_service_items", "get_service_item_by_id",
                 "search_solutions_paginated"}
    \/ tool = "get_requesters_by_department_id" /\ ~args.get_all

\* C18: every request is a GET; a method of a Resource Client, which calls
\* the auth-header callback once, issues exactly one request (none when the
\* callback fails, which ends the invocation), which gets at most one
\* response; a tool that calls one method issues at most one request.
C18_OneGetPerMethodCall ==
    (tool \in Tools \/ tool = "get_all_departments") =>
        /\ \A i \in 1..Len(requests) : requests[i].method = "GET"
        /\ Len(responses) <= Len(requests)
        /\ Len(requests) - Len(responses) <= 1
        /\ SingleRequestTool => Len(requests) <= 1
        /\ ThroughResourceClient =>
              /\ Len(requests) = clients
              /\ auth_calls - Len(requests) \in {0, 1}
              /\ auth_calls > Len(requests) =>
                    pc \in {"returned", "raised"}
              /\ \A i \in 1..Len(requests) :
                    requests[i].client = i /\ requests[i].headers = i

\* a lookup that succeeded on its one GET
C18_Witness ==
    /\ tool = "get_service_item_by_id"
    /\ pc = "returned"
    /\ IsSuccessEnvelope(result)
    /\ Len(requests) = 1
    /\ Len(responses) = 1
    /\ requests[1].method = "GET"
    /\ requests[1].id = args.display_id

-----------------------------------------------------------------------------
(* C19 *)

\* C19: a call of clean_html_content leaves its argument as it was; on a
\* mapping it returns a mapping with the same keys, in which a key that is
\* not description, title or summary, and one of these three whose value is
\* None or empty, has the value it had in the argument; on the empty string
\* it returns the empty string; on a value that is neither a string nor a
\* mapping it returns the value.
C19_NormalizerFrame ==
    [][(pc = "running" /\ tool = "clean_html_content") =>
        LET type == TypeOf(args.content)
            given == ValueOf(args.content)
            returned == result'.value
        IN  /\ args' = args
            /\ type \in {"dict", "empty"} =>
                  /\ DOMAIN returned = DOMAIN given
                  /\ \A k \in DOMAIN given :
                        (\/ k \notin {"description", "title", "summary"}
                         \/ given[k] = None
                         \/ given[k] = <<>>) => returned[k] = given[k]
            /\ (type = "str" /\ given = <<>>) => returned = <<>>
            /\ type = "other" => returned = given]_vars

\* a mapping whose title is None and whose description is HTML: the
\* description was converted, the title and the tags are as they were
C19_Witness ==
    /\ tool = "clean_html_content"
    /\ pc = "returned"
    /\ TypeOf(args.content) = "dict"
    /\ "title" \in DOMAIN args.content.dict
    /\ args.content.dict.title = None
    /\ result.value.title = None
    /\ args.content.dict.description = <<"<p>", "a", "_", "b", "</p>">>
    /\ result.value.description = <<"a", "\\", "_", "b">>
    /\ result.value.tags = <<"<b>", "_">>

-----------------------------------------------------------------------------
(* C20 *)

\* C20: clean_html_content applied to a mapping it returned returns the
\* same mapping.
C20_NormalizerIdempotent ==
    (/\ tool = "clean_html_content"
     /\ pc = "returned again"
     /\ TypeOf(args.content) = "dict") =>
        result.value = args.content.dict

-----------------------------------------------------------------------------
(* C16, under ConcurrentSpec *)

\* C16: a tool invocation that runs concurrently with other invocations, its
\* requests and theirs interleaved at the await points, ends as the same
\* invocation ended when it ran alone against the same backend: it returns
\* the same envelope, or raises as that one raised.
C16_ConcurrentAsAlone ==
    running # 0 =>
        \A i \in Invocations \ {0} :
            Finished(FrameOf(i)) =>
                /\ FrameOf(i).pc = suspended[0].pc
                /\ FrameOf(i).result = suspended[0].result

\* invocation 2 has returned from its second page or a later one while
\* invocation 1, which started before it, still awaits a page after its
\* first
C16_Witness ==
    /\ running = 2
    /\ pc = "returned"
    /\ Len(responses) >= 2
    /\ suspended[1].pc = "await"
    /\ Len(suspended[1].responses) >= 1
    /\ result = suspended[0].result


-----------------------------------------------------------------------------
(* C21 *)

\* the characters of the model's alphabet that quote() escapes
EscapedChars == {" ", "'", ":", "%", "\t", "\n"}

\* urllib.parse.unquote: a percent sign and two hex digits become the
\* character they stand for, everything else stays
RECURSIVE unquote(_)
unquote(s) ==
    IF s = <<>> THEN <<>>
    ELSE IF /\ Head(s) = "%"
            /\ Len(s) >= 3
            /\ \E c \in EscapedChars : HexOf(c) = <<s[2], s[3]>>
         THEN <<CHOOSE c \in EscapedChars : HexOf(c) = <<s[2], s[3]>> >>
                  \o unquote(SubSeq(s, 4, Len(s)))
         ELSE <<Head(s)>> \o unquote(Tail(s))

\* the tools whose request carries a query or a search term
SearchingTools ==
    {"get_department_by_name", "search_requesters_by_name",
     "get_requesters_by_department_id", "search_service_items",
     "search_solutions", "search_solutions_paginated"}

\* the query string the invocation builds from its arguments
BuiltQuery ==
    CASE tool = "get_department_by_name" -> department_query(args.name)
      [] tool = "search_requesters_by_name" ->
            requesters_query(passed_name(args.first_name),
                             passed_name(args.last_name)).query
      [] tool = "get_requesters_by_department_id" ->
            department_id_query(args.department_id)
      [] tool = "search_service_items" -> strip(args.query)
      [] tool \in {"search_solutions", "search_solutions_paginated"} ->
            strip(args.search_term)

\* C21: the encoded query segment of every request of a search operation
\* decodes, by percent-decoding, to exactly the query string the operation
\* built: no character is lost, added or altered.
C21_QueryRoundTrip ==
    tool \in SearchingTools =>
        \A i \in 1..Len(requests) :
            /\ requests[i].query.param \in {"query", "search_term"}
            /\ unquote(requests[i].query.value) = BuiltQuery

\* a department name with a quote, a colon and a percent sign followed by
\* two digits: the percent sign went out as %25
C21_Witness ==
    /\ tool = "get_department_by_name"
    /\ args.name = <<"O", "'", "K", ":", "%", "2", "0">>
    /\ Len(requests) = 1
    /\ requests[1].query.value =
          <<"n", "a", "m", "e", "%", "3", "A", "%", "2", "7",
            "O", "%", "2", "7", "K", "%", "3", "A", "%", "2", "5", "2", "0",
            "%", "2", "7">>
    /\ unquote(requests[1].query.value) = department_query(args.name)


-----------------------------------------------------------------------------
(* C22 *)

\* C22, as claimed: the encoded query of a search request stands between
\* double quotes in the URL, except in the searches of requesters, where it
\* stands bare.
C22_Original ==
    \A i \in 1..Len(requests) :
        requests[i].query.param = "query" =>
            (requests[i].query.quoted <=> requests[i].resource # "requesters")

\* C22, amended: every request of a search operation carries the encoded
\* query the operation built; under `query` it stands between double quotes
\* in the searches of departments by name, of service items and of
\* requesters by department id, and bare in the search of requesters by
\* name alone; the article searches carry it bare under `search_term`.
C22_QuotesAroundQuery ==
    tool \in SearchingTools =>
        \A i \in 1..Len(requests) :
            LET query == requests[i].query
            IN  /\ query.value = quote(BuiltQuery)
                /\ query.param =
                      IF tool \in {"search_solutions", "search_solutions_paginated"}
                      THEN "search_term" ELSE "query"
                /\ query.quoted <=>
                      tool \in {"get_department_by_name", "search_service_items",
                                "get_requesters_by_department_id"}

\* a request for the requesters of a department: the query stands between
\* quotes
C22_Witness ==
    /\ tool = "get_requesters_by_department_id"
    /\ Len(requests) >= 1
    /\ requests[1].resource = "requesters"
    /\ requests[1].query.param = "query"
    /\ requests[1].query.quoted
    /\ requests[1].query.value = quote(department_id_query(9999))


-----------------------------------------------------------------------------
(* C23 *)

\* C23: the i-th request of an aggregator invocation asks for page i, so
\* that the pages asked for are 1, 2, ..., p, none skipped and none asked
\* for twice, and every request asks for the same number of items a page:
\* 100, or the per_page that list_all_service_items was called with; the
\* page counter of the loop stands at the page asked for last (one further
\* when the auth-header callback kept the next request from being issued).
C23_PagesInSequence ==
    Aggregating =>
        /\ \A i \in 1..Len(requests) :
              /\ requests[i].page = i
              /\ requests[i].per_page = requests[1].per_page
        /\ requests[1].per_page = AggregationPerPage
        /\ page = IF AuthHeld THEN Len(requests) ELSE Len(requests) + 1

\* list_all_service_items(per_page=2) has asked for its third page
C23_Witness ==
    /\ tool = "list_all_service_items"
    /\ args.per_page = Some(2)
    /\ Len(requests) = 3
    /\ requests[1].page = 1
    /\ requests[2].page = 2
    /\ requests[3].page = 3
    /\ requests[3].per_page = 2


-----------------------------------------------------------------------------
(* C24 *)

\* C24: when search_solutions succeeds, the articles search_all_articles
\* returned are the articles of the pages received, each as one application
\* of clean_html_content leaves it, whether its page held the articles
\* under the key or was a bare list; the articles served all hold HTML that
\* the normalizer changes and would change again, so that an article that
\* was not cleaned, or cleaned twice, is not what one application gives.
\* The envelope holds the published ones of these articles.
C24_CleanedExactlyOnce ==
    (tool = "search_solutions" /\ pc = "returned" /\ IsSuccessEnvelope(result)) =>
        /\ Len(acc) = Len(ReceivedItems)
        /\ \A k \in 1..Len(acc) :
              LET raw == ReceivedItems[k]
                  once == clean_html_content(raw)
              IN  /\ acc[k] = once
                  /\ once # raw
                  /\ once # clean_html_content(once)
        /\ result.articles = Map(_format_article, Filter(is_published, acc))

\* a full page that is a bare list, then a short page under the key: the
\* first article of each came out cleaned once
C24_Witness ==
    /\ tool = "search_solutions"
    /\ pc = "returned"
    /\ IsSuccessEnvelope(result)
    /\ Len(responses) = 2
    /\ responses[1].shape = "list"
    /\ Len(responses[1].items) = 100
    /\ responses[2].shape = "keyed"
    /\ Len(responses[2].items) = 1
    /\ responses[1].items[1].description =
          <<"<b>", "x", "</b>", "\n", "\n", "\n", "y">>
    /\ acc[1].description = <<"*", "*", "x", "*", "*", "\n", "\n", "y">>
    /\ acc[101].description = <<"*", "*", "x", "*", "*", "\n", "\n", "y">>


-----------------------------------------------------------------------------
(* C25 *)

\* C25: RequestersAPI.search_requesters_by_name called with two names of
\* which none is usable (each is None, empty or whitespace only) raises
\* ValueError and issues no request; no request of it has the empty string
\* for its query.
C25_UnusableNamesRaise ==
    tool = "RequestersAPI.search_requesters_by_name" =>
        /\ (Blank(args.first_name) /\ Blank(args.last_name)) =>
              /\ pc = "raised"
              /\ result = [raised |-> "ValueError"]
              /\ requests = <<>>
        /\ \A i \in 1..Len(requests) : requests[i].query.value # <<>>


-----------------------------------------------------------------------------
(* C26 *)

\* C26: in a success envelope of list_all_departments pages_fetched is the
\* number of requests the invocation issued, the one for the last page,
\* short or empty, included; each of these requests was answered.
C26_PagesFetched ==
    (tool = "list_all_departments" /\ IsSuccessEnvelope(result)) =>
        /\ pc = "returned"
        /\ result.pages_fetched = Len(requests)
        /\ result.pages_fetched = Len(responses)
        /\ result.pages_fetched >= 1

\* two full pages and an empty one: three pages fetched
C26_Witness ==
    /\ tool = "list_all_departments"
    /\ IsSuccessEnvelope(result)
    /\ Len(requests) = 3
    /\ Len(responses[1].items) = 100
    /\ Len(responses[2].items) = 100
    /\ responses[3].shape = "keyed"
    /\ responses[3].items = <<>>
    /\ result.pages_fetched = 3
    /\ result.total_count = 200


-----------------------------------------------------------------------------
(* C27 *)

\* the tools whose success envelope holds a collection and its total_count
CollectionTools ==
    {"list_all_departments", "search_requesters_by_name",
     "get_requesters_by_department_id", "search_service_items",
     "search_solutions"}

\* the key the collection stands under
CollectionKey ==
    CASE tool = "list_all_departments" -> "departments"
      [] tool \in {"search_requesters_by_name",
                   "get_requesters_by_department_id"} -> "requesters"
      [] tool = "search_service_items" -> "items"
      [] tool = "search_solutions" -> "articles"

\* C27: in a success envelope of list_all_departments, of the two requester
\* tools, of search_service_items and of search_solutions, total_count is
\* the length of the collection the envelope holds; total_found, where the
\* envelope has it, is not less than total_count.
C27_TotalCountIsLength ==
    (tool \in CollectionTools /\ IsSuccessEnvelope(result)) =>
        /\ {CollectionKey, "total_count"} \subseteq DOMAIN result
        /\ result.total_count = Len(result[CollectionKey])
        /\ "total_found" \in DOMAIN result =>
              result.total_found >= result.total_count

\* a page of 99 articles of which some are not published: fewer are
\* returned than were found
C27_Witness ==
    /\ tool = "search_solutions"
    /\ IsSuccessEnvelope(result)
    /\ "total_found" \in DOMAIN result
    /\ result.total_found = 99
    /\ result.total_count = Len(result.articles)
    /\ result.total_count > 0
    /\ result.total_count < 99


-----------------------------------------------------------------------------
(* C28 *)

\* search_solutions_paginated was called with arguments that pass its checks
C28_ValidCall ==
    /\ tool = "search_solutions_paginated"
    /\ strip(args.search_term) # <<>>
    /\ args.page >= 1
    /\ args.per_page \in 1..100

\* the one request, for the page and the page size of the call (none when
\* the auth-header callback failed)
C28_OneRequest ==
    /\ Len(requests) <= 1
    /\ AuthHeld => Len(requests) = 1
    /\ \A i \in 1..Len(requests) :
          /\ requests[i].page = args.page
          /\ requests[i].per_page = args.per_page
          /\ requests[i].query = SearchTerm(quote(strip(args.search_term)))

\* the articles of the page received, normalized
C28_PageArticles == Map(clean_html_content, responses[1].items)

\* the envelope reports the published articles of the page and the counts
C28_Counts ==
    LET published == Filter(C9_StatusIsTwo, C28_PageArticles)
    IN  /\ result.articles = Map(_format_article, published)
        /\ {"returned_count", "total_found", "has_more"} \subseteq DOMAIN result
        /\ result.returned_count = Len(published)
        /\ result.total_found = Len(C28_PageArticles)
        /\ result.has_more = (Len(C28_PageArticles) = args.per_page)

\* C28, as claimed: a valid search_solutions_paginated issues one request,
\* for the page and per_page given; every success envelope holds the
\* published articles of the page, their number as returned_count, the
\* number of articles of the page as total_found, and has_more, which is
\* true exactly when the page holds per_page articles.
C28_Original ==
    C28_ValidCall =>
        /\ C28_OneRequest
        /\ IsSuccessEnvelope(result) => C28_Counts

\* C28, amended: a valid search_solutions_paginated issues one request, for
\* the page and per_page given; a success envelope for a page that holds
\* articles reports the published ones, returned_count, total_found and
\* has_more as claimed; for a page that holds no article the envelope has
\* articles = [], page, per_page and total_count = 0, and none of
\* returned_count, total_found and has_more.
C28_OnePageAndCounts ==
    C28_ValidCall =>
        /\ C28_OneRequest
        /\ IsSuccessEnvelope(result) =>
              /\ result.page = args.page
              /\ result.per_page = args.per_page
              /\ IF ItemCount(responses[1]) = 0 \/ responses[1].shape # "keyed"
                 THEN /\ DOMAIN result \cap {"returned_count", "total_found",
                                             "has_more"} = {}
                      /\ "total_count" \in DOMAIN result
                      /\ result.total_count = 0
                      /\ result.articles = <<>>
                 ELSE C28_Counts

\* page 2 with two articles a page: a full page of which one article is
\* published
C28_Witness ==
    /\ C28_ValidCall
    /\ args.page = 2
    /\ args.per_page = 2
    /\ pc = "returned"
    /\ IsSuccessEnvelope(result)
    /\ Len(requests) = 1
    /\ Len(responses[1].items) = 2
    /\ result.total_found = 2
    /\ result.returned_count = 1
    /\ Len(result.articles) = 1
    /\ result.has_more


-----------------------------------------------------------------------------
(* C29 *)

\* the envelope holds exactly these requesters, formatted, and their number
C29_ReturnsRequesters(requesters) ==
    /\ pc = "returned"
    /\ IsSuccessEnvelope(result)
    /\ result.requesters = Map(_format_requester, requesters)
    /\ result.total_count = Len(requesters)

\* the claim, for pages whose bodies have one of the given shapes
C29_Modes(shapes) ==
    (/\ tool = "get_requesters_by_department_id"
     /\ args.department_id > 0
     /\ AuthHeld
     /\ \A i \in 1..Len(responses) :
           responses[i].kind = "ok" /\ responses[i].shape \in shapes) =>
        /\ RequestedPages(100)
        /\ ~args.get_all =>
              /\ Len(requests) = 1
              /\ Len(responses) = 1 => C29_ReturnsRequesters(responses[1].items)
        /\ args.get_all =>
              /\ pc = "returned" <=>
                    \E i \in 1..Len(responses) : Len(responses[i].items) < 100
              /\ pc = "returned" => C29_ReturnsRequesters(ReceivedItems)
        /\ (Len(responses) = 1 /\ Len(responses[1].items) < 100) =>
              C29_ReturnsRequesters(responses[1].items)

\* C29: get_requesters_by_department_id with get_all = False issues one
\* request, for page 1 with per_page 100, and returns the requesters of
\* that page, whatever their number; with get_all = True it asks for page
\* after page and returns the requesters of all the pages; when the first
\* page is short both modes return the requesters of that page and their
\* number as total_count.  A page is a 2xx response whose body holds the
\* requesters under the key, is a bare list of them, or is a mapping
\* without the key, which holds none.
C29_FirstPageOrAll == C29_Modes({"keyed", "list", "nokey"})


-----------------------------------------------------------------------------
(* C30 *)

C30_WitnessNoMatch ==
    /\ tool = "get_department_by_name"
    /\ pc = "returned"
    /\ Len(responses) = 1
    /\ responses[1].shape = "keyed"
    /\ responses[1].items = <<>>
    /\ result.success = FALSE
    /\ result.department = None

====
